---- MODULE Spec2Model ----
(***************************************************************************)
(* Model of the embedding-indexed retrieval engine of AIBOOKCURATION:      *)
(* the v2 Index Store load path (core/retriever_v2.py), the two retrieve   *)
(* implementations (core/retriever.py, core/retriever_v2.py), the          *)
(* /recommend handlers (fastapi_app.py, api/fastapi_app.py) and the        *)
(* DeepSeek summarisation call (core/llm_integration.py and the older      *)
(* core/llm_intergration.py).                                              *)
(*                                                                         *)
(* Numbers.  Cosine similarities are fixed-point integers in units of     *)
(* 1e-8 (ONE = 1.0).  Squared L2 distances are integers in units of 2e-8,  *)
(* so that cos = 1 - dist/2 is ONE - dist.  round(x, n) is modelled as     *)
(* round-half-even to the quantum ONE / 10^n.                              *)
(*                                                                         *)
(* The embedding model and FAISS are external: a query text embeds to a    *)
(* point whose squared distance to every stored vector is given by the     *)
(* table D, drawn once in Init and never changed (a deterministic          *)
(* embedding function over an immutable index).                            *)
(***************************************************************************)
EXTENDS Integers, Naturals, Sequences, FiniteSets, TLC

\* ------------------------------------------------------------------ bounds
MaxRows == 2          \* largest vector count / metadata row count considered
MaxTopK == 2          \* largest top_k a direct caller passes
MaxCallers == 2       \* concurrent callers of the serving process
MaxBuilds == 2        \* builder runs against one output directory
MaxBatch == 2         \* largest EMBED_BATCH_SIZE / batch_size considered
MAX_CHARS == 2        \* MAX_CHARS of build_index_v2.py (1200 by default), scaled

\* --------------------------------------------------------------- constants
None == "None"
ONE == 100000000      \* fixed-point 1.0
\* Absent values, typed like the values they stand in for.
NoIndex == [exists |-> FALSE, ntotal |-> 0]
NoMeta == [exists |-> FALSE, has_row_id |-> FALSE, row_ids |-> <<>>]
NoZip == [set |-> FALSE, index |-> NoIndex, meta |-> NoMeta]
NoHandle == [kind |-> None, ntotal |-> 0, row_ids |-> <<>>]
NoVec == [prefix |-> None, text |-> <<>>]
NoPath == [abs |-> FALSE, parts |-> <<>>]
NoDirs == [ensured |-> NoPath, loaded |-> NoPath]

\* ------------------------------------------------------------------ state
VARIABLES
    indexFile,    \* index.faiss on disk: NoIndex or [exists, ntotal]
    metaFile,     \* meta.parquet on disk: NoMeta or [exists, has_row_id, row_ids]
    zipUrl,       \* FAISS_ZIP_URL / FAISS_V2_ZIP_URL: NoZip, or the archive
                  \* behind it as [set, index, meta]
    version,      \* RETRIEVER_VERSION: "v1" or "v2"
    D,            \* D[q][i]: squared L2 distance of query q to stored vector i
    app,          \* program running: "fastapi" | "api" | "script"
    llmConfig,    \* DeepSeek module importable with an API key set, or None
    phase,        \* "boot" | "serving" | "failed" (process lifecycle)
    loadError,    \* the exception the load raised, or None
    retriever,    \* process-wide handle (_retriever): NoHandle or the loaded store
    loaded,       \* history: the handle as it was when the load returned
    recommender,  \* _recommender: None or the DeepSeekRecommender variant
    call,         \* call[c]: the request / retrieve call of caller c
    build,        \* the builder script now running or last run
    buildsLeft,   \* builder runs still to be started
    jobs,         \* the builder invocations on offer: [tool, table, B]
    reranker,     \* None, or "cross-encoder" when the optional reranker is used
    indexOrigin,  \* what index.faiss holds: [run, ds, vecs]
    metaOrigin,   \* what meta.parquet holds: [run, ds, cols, rows]
    content,      \* content[role]: what the input tables hold in the column
                  \* of that role (a string, or NaN for a missing value)
    INDEX_V2_DIR, \* the environment variable: NoPath (unset) or a path
    cwd,          \* working directory of the server process
    altStore,     \* [index, meta] in the directory the v2 load resolves to
                  \* when that is not backend/models/faiss_index_v2 (whose
                  \* artifacts are indexFile and metaFile)
    dirs          \* history: [ensured, loaded], the directory startup
                  \* checked or populated and the one the load read

vars == <<indexFile, metaFile, zipUrl, version, D, app, llmConfig, phase,
          loadError, retriever, loaded, recommender, call,
          build, buildsLeft, jobs, reranker, indexOrigin, metaOrigin, content,
          INDEX_V2_DIR, cwd, altStore, dirs>>

\* What no step of any program changes: the content of the input tables,
\* the environment and working directory of the server, and a directory
\* no modelled program writes to.
Inputs == <<content, INDEX_V2_DIR, cwd, altStore>>

\* ------------------------------------------------------- generic helpers
Max(a, b) == IF a >= b THEN a ELSE b
Min(a, b) == IF a <= b THEN a ELSE b

\* seq[:k] of Python: the first k elements, or all but the last -k.
PySliceTo(seq, k) ==
    SubSeq(seq, 1, IF k >= 0 THEN Min(k, Len(seq)) ELSE Max(Len(seq) + k, 0))

\* All sequences over S of length 0..n.
SeqsUpTo(S, n) == UNION { [1..m -> S] : m \in 0..n }

\* ------------------------------------------------------------ Index Store
\* A metadata table: whether it has the row_id column, and the row_id value
\* of each row in file order (the position of a row identifies its title,
\* author and description).
MetaTables ==
    { [exists |-> TRUE, has_row_id |-> h, row_ids |-> r] :
        h \in BOOLEAN, r \in SeqsUpTo(0..MaxRows, MaxRows) }

IndexFiles == { [exists |-> TRUE, ntotal |-> n] : n \in 0..MaxRows }

\* BookRetrieverV2.__init__: the checks in source order.  The result is
\* [error, handle]; handle is None whenever an error is raised.
LoadedHandle(idx, meta) ==
    [kind |-> "v2", ntotal |-> idx.ntotal, row_ids |-> meta.row_ids]

\* Mutant: the constructor without the ntotal / row-count comparison.
BookRetrieverV2Init_NoCountCheck(idx, meta) ==
    IF ~idx.exists
      THEN [error |-> "FileNotFoundError:index", handle |-> NoHandle]
    ELSE IF ~meta.exists
      THEN [error |-> "FileNotFoundError:meta", handle |-> NoHandle]
    ELSE IF ~meta.has_row_id
      THEN [error |-> "ValueError:row_id", handle |-> NoHandle]
    ELSE [error |-> None, handle |-> LoadedHandle(idx, meta)]

\* Mutant: the constructor without the row_id column check.
BookRetrieverV2Init_NoRowIdCheck(idx, meta) ==
    IF ~idx.exists
      THEN [error |-> "FileNotFoundError:index", handle |-> NoHandle]
    ELSE IF ~meta.exists
      THEN [error |-> "FileNotFoundError:meta", handle |-> NoHandle]
    ELSE IF idx.ntotal # Len(meta.row_ids)
      THEN [error |-> "ValueError:count", handle |-> NoHandle]
    ELSE [error |-> None, handle |-> LoadedHandle(idx, meta)]

BookRetrieverV2Init(idx, meta) ==
    IF ~idx.exists
      THEN [error |-> "FileNotFoundError:index", handle |-> NoHandle]
    ELSE IF ~meta.exists
      THEN [error |-> "FileNotFoundError:meta", handle |-> NoHandle]
    ELSE IF ~meta.has_row_id
      THEN [error |-> "ValueError:row_id", handle |-> NoHandle]
    ELSE IF idx.ntotal # Len(meta.row_ids)
      THEN [error |-> "ValueError:count", handle |-> NoHandle]
    ELSE [error |-> None, handle |-> LoadedHandle(idx, meta)]

\* BookRetriever.__init__ (generation 1): FAISS.load_local of a docstore-
\* backed index; documents are aligned with vectors by construction.
BookRetrieverInit(idx) ==
    IF ~idx.exists
      THEN [error |-> "RuntimeError:load_local", handle |-> NoHandle]
      ELSE [error |-> None,
            handle |-> [kind |-> "v1", ntotal |-> idx.ntotal,
                        row_ids |-> [i \in 1..idx.ntotal |-> i - 1]]]

\* ---------------------------------------------------------------- datasets
\* A cell of the input table is identified by the dataset it comes from,
\* the position of its record in iteration order (0-based) and its column.
\* EmptyStr is "" (what fillna("") / `or ""` put in place of a missing value).
EmptyStr == [ds |-> None, row |-> -1, col |-> None]
Cell(ds, pos, col) == [ds |-> ds, row |-> pos, col |-> col]

\* An input table (DataFrame): its name, its columns, and the index label
\* of each record in iteration order.  The labels are not 0..n-1 (a table
\* that was filtered or concatenated before it was saved).
Table(name, cols, n) ==
    [name |-> name, cols |-> cols, labels |-> [i \in 1..n |-> 2 * i + 3]]

\* Column names.  The Korean aliases of the source are written in ASCII:
\* title_ko is "도서명", author_ko "저자", desc_ko "설명", summary_ko "요약".
AllCols == {"title", "author", "description", "isbn"}

\* BookIndexer._pick_col / to_documents.pick: the first candidate that is a
\* column of the table, or None.
RECURSIVE PickCol(_, _)
PickCol(cols, cands) ==
    IF cands = <<>> THEN None
    ELSE IF Head(cands) \in cols THEN Head(cands)
    ELSE PickCol(cols, Tail(cands))

\* The value of record pos in column col: row.get(col, "") or "".
CellOr(t, pos, col) ==
    IF col # None /\ col \in t.cols THEN Cell(t.name, pos, col) ELSE EmptyStr

NoTable == [name |-> None, cols |-> {}, labels |-> <<>>]

\* Column aliases, first match wins (retriever.py:55-59 and
\* build_index_from_csv.py:84-86).
TitleAliases == <<"title", "title_ko">>
AuthorAliases == <<"author", "author_ko">>
DescAliasesIndexer == <<"description", "desc", "summary", "summery", "desc_ko", "summary_ko">>
DescAliasesCsv == <<"description", "desc", "summary", "summary_ko", "desc_ko">>
IsbnAliases == <<"isbn", "ISBN", "isbn_ko">>
PublisherAliases == <<"publisher", "publisher_ko">>

\* A cell value: a string (sequence of characters, " " is whitespace) or
\* NaN, which is what pandas reads for an empty CSV field.
NaN == [nan |-> TRUE, s |-> <<>>]
Text(s) == [nan |-> FALSE, s |-> s]

InSeq(x, seq) == \E k \in 1..Len(seq) : seq[k] = x

\* The role of a column: which of the alias lists names it.
Role(col) ==
    IF InSeq(col, TitleAliases) THEN "title"
    ELSE IF InSeq(col, AuthorAliases) THEN "author"
    ELSE IF InSeq(col, DescAliasesIndexer) THEN "description"
    ELSE IF InSeq(col, PublisherAliases) THEN "publisher"
    ELSE "isbn"

\* The value the input table holds in a cell; the default of
\* row.get(col, "") when the column is absent is "".
Raw(cell) == IF cell.col = None THEN Text(<<>>) ELSE content[Role(cell.col)]

\* df[c].fillna("").astype(str) (build_index_v2.py:83): NaN becomes "".
FillNaStr(v) == IF v.nan THEN <<>> ELSE v.s

\* str(x or ""): NaN is truthy, so it is kept and printed as "nan".
StrOr(v) == IF v.nan THEN <<"n", "a", "n">> ELSE v.s

\* What an artifact on disk holds: the builder run that wrote it, the
\* table it was computed from, and its content (run 0: present before
\* any modelled run, run -1: unpacked from the zip).
NoIndexOrigin == [run |-> 0, ds |-> NoTable, vecs |-> <<>>]
NoMetaOrigin == [run |-> 0, ds |-> NoTable, cols |-> <<>>, rows |-> <<>>]
ZipIndexOrigin == [run |-> -1, ds |-> NoTable, vecs |-> <<>>]
ZipMetaOrigin == [run |-> -1, ds |-> NoTable, cols |-> <<>>, rows |-> <<>>]

\* ---------------------------------------------------------------- queries
\* A query string is a sequence of characters; " " is whitespace.
Strip(q) ==
    LET idx == { i \in 1..Len(q) : q[i] # " " }
    IN  IF idx = {} THEN <<>>
        ELSE LET lo == CHOOSE i \in idx : \A j \in idx : i <= j
                 hi == CHOOSE i \in idx : \A j \in idx : i >= j
             IN  SubSeq(q, lo, hi)

\* `not query or not query.strip()`
IsBlankQuery(q) == Len(q) = 0 \/ Len(Strip(q)) = 0

QueryPrefix == "query: "
PassagePrefix == "passage: "

\* Mutant: the query is embedded with the document prefix.
EmbedQueryText_PassagePrefix(q) == [prefix |-> PassagePrefix, text |-> q]

\* _embed_query: the text handed to the embedding model.  The vector is
\* identified with the text it was computed from.
EmbedQueryText(q) == [prefix |-> QueryPrefix, text |-> q]

\* --------------------------------------------------------------- numerics
\* round-half-even of x (fixed point, x >= 0) to a multiple of quantum.
RoundHalfEven(x, quantum) ==
    LET lo == (x \div quantum) * quantum
        r  == x - lo
    IN  IF 2 * r < quantum THEN lo
        ELSE IF 2 * r > quantum THEN lo + quantum
        ELSE IF (lo \div quantum) % 2 = 0 THEN lo ELSE lo + quantum

\* Mutant: cos = 1 - dist/2 without the clamp.
CosineFromL2Squared_NoClamp(dist) == ONE - dist

\* _cosine_from_l2_squared: cos = 1 - dist/2 clamped to [0, 1].
CosineFromL2Squared(dist) == Max(0, Min(ONE, ONE - dist))

Round6(x) == RoundHalfEven(x, ONE \div 1000000)
Round3(x) == RoundHalfEven(x, ONE \div 1000)
\* int(round(score * 100))
ScorePct(x) == RoundHalfEven(x, ONE \div 100) \div (ONE \div 100)
\* to_stars: max(0.5, round(c * 5 * 2) / 2), in half-star units (1 = 0.5)
ToStars(x) == Max(1, RoundHalfEven(x, ONE \div 10) \div (ONE \div 10))

\* floor(a * m / s) and the remainder, without forming a * m
\* (0 <= a < s, m >= 0): binary multiplication with running division.
RECURSIVE MulDivMod(_, _, _)
MulDivMod(a, m, s) ==
    IF m = 0 THEN [q |-> 0, r |-> 0]
    ELSE LET h  == MulDivMod(a, m \div 2, s)
             q2 == 2 * h.q + ((2 * h.r) \div s)
             r2 == (2 * h.r) % s
         IN  IF m % 2 = 0 THEN [q |-> q2, r |-> r2]
             ELSE [q |-> q2 + ((r2 + a) \div s), r |-> (r2 + a) % s]

\* rel = (c - cmin) / (cmax - cmin + eps), rel = 0.10 + rel * 0.90,
\* rel_pct = int(round(rel * 100)); eps = 1e-8 is one fixed-point unit.
Eps == 1
RelPct(c, cmin, cmax) ==
    LET s == cmax - cmin + Eps
        d == MulDivMod(c - cmin, 90, s)
    IN  10 + (IF 2 * d.r < s THEN d.q
              ELSE IF 2 * d.r > s THEN d.q + 1
              ELSE IF d.q % 2 = 0 THEN d.q ELSE d.q + 1)

\* ----------------------------------------------------------- FAISS search
PadDist == 10 * ONE     \* distance reported with the sentinel id -1

\* Rows 0..n-1 ordered by ascending distance (ties: ascending row).
RECURSIVE SortedRows(_, _)
SortedRows(dv, rows) ==
    IF rows = {} THEN <<>>
    ELSE LET best == CHOOSE i \in rows :
                       \A j \in rows : dv[i] < dv[j] \/ (dv[i] = dv[j] /\ i <= j)
         IN  <<best>> \o SortedRows(dv, rows \ {best})

\* index.search(qvec, k): k (id, distance) pairs, nearest first, padded
\* with id -1 when the index holds fewer than k vectors.
IndexSearch(dv, ntotal, k) ==
    LET order == SortedRows(dv, 0..(ntotal - 1))
    IN  [ids   |-> [j \in 1..k |-> IF j <= ntotal THEN order[j] ELSE -1],
         dists |-> [j \in 1..k |-> IF j <= ntotal THEN dv[order[j]] ELSE PadDist]]

\* list.sort(key=..., reverse=True) / sorted(..., reverse=True): stable,
\* descending by the score field.  Insertion from the left keeps equal
\* keys in their original order.
\* Mutant: an unstable descending sort (equal keys end up reversed).
RECURSIVE InsertDesc_TiesReversed(_, _)
InsertDesc_TiesReversed(sorted, x) ==
    IF sorted = <<>> THEN <<x>>
    ELSE IF Head(sorted).score > x.score
      THEN <<Head(sorted)>> \o InsertDesc_TiesReversed(Tail(sorted), x)
      ELSE <<x>> \o sorted

RECURSIVE InsertDesc(_, _)
InsertDesc(sorted, x) ==
    IF sorted = <<>> THEN <<x>>
    ELSE IF Head(sorted).score >= x.score
      THEN <<Head(sorted)>> \o InsertDesc(Tail(sorted), x)
      ELSE <<x>> \o sorted

\* Mutant: the sort without reverse=True (ascending, stable).
RECURSIVE InsertAsc(_, _)
InsertAsc(sorted, x) ==
    IF sorted = <<>> THEN <<x>>
    ELSE IF Head(sorted).score <= x.score
      THEN <<Head(sorted)>> \o InsertAsc(Tail(sorted), x)
      ELSE <<x>> \o sorted

RECURSIVE SortByScoreAsc(_)
SortByScoreAsc(rs) ==
    IF rs = <<>> THEN <<>>
    ELSE InsertAsc(SortByScoreAsc(SubSeq(rs, 1, Len(rs) - 1)), rs[Len(rs)])

RECURSIVE SortByScoreDesc(_)
SortByScoreDesc(rs) ==
    IF rs = <<>> THEN <<>>
    ELSE InsertDesc(SortByScoreDesc(SubSeq(rs, 1, Len(rs) - 1)), rs[Len(rs)])

\* ------------------------------------------------------- retrieve: results
Get(r, f) == IF f \in DOMAIN r THEN r[f] ELSE None

\* meta.loc[int(row_id)]: the positions of the metadata rows whose row_id
\* equals the id (empty: KeyError).
MetaLoc(h, row_id) == { p \in 1..Len(h.row_ids) : h.row_ids[p] = row_id }

\* One element of the v2 result list (retriever_v2.py:125-139).
V2Result(h, rank, row_id, dist) ==
    LET score == CosineFromL2Squared(dist)
    IN  [id        |-> row_id,
         rows      |-> MetaLoc(h, row_id),
         rank      |-> rank,
         score     |-> Round6(score),
         score_pct |-> ScorePct(score),
         distance  |-> dist]

\* similarity_search_with_score of the LangChain FAISS store: the search
\* hits without the -1 sentinels, as (row, distance) pairs.
V1Pairs(h, dv, k) ==
    LET hit == IndexSearch(dv, h.ntotal, k)
        n   == Min(k, h.ntotal)
    IN  [j \in 1..n |-> [row |-> hit.ids[j], dist |-> hit.dists[j]]]

\* BookRetriever.retrieve after the search (retriever.py:148-188).
V1Results(pairs) ==
    LET cos(j)  == CosineFromL2Squared(pairs[j].dist)
        cosines == { cos(j) : j \in 1..Len(pairs) }
        cmax == IF cosines = {} THEN ONE
                ELSE CHOOSE x \in cosines : \A y \in cosines : x >= y
        cmin == IF cosines = {} THEN 0
                ELSE CHOOSE x \in cosines : \A y \in cosines : x <= y
        results ==
          [j \in 1..Len(pairs) |->
             [rows      |-> {pairs[j].row + 1},
              rank      |-> j,
              score     |-> Round3(cos(j)),
              score_pct |-> ScorePct(cos(j)),
              rel_pct   |-> RelPct(cos(j), cmin, cmax),
              stars     |-> ToStars(cos(j)),
              distance  |-> pairs[j].dist]]
    IN  SortByScoreDesc(results)

\* recommend's mapping of one raw item to the Book schema
\* (fastapi_app.py:165-183).
ToBook(r) ==
    [id        |-> Get(r, "id"),
     rows      |-> Get(r, "rows"),
     rank      |-> Get(r, "rank"),
     score     |-> Get(r, "score"),
     score_pct |-> Get(r, "score_pct"),
     rel_pct   |-> Get(r, "rel_pct"),
     stars     |-> Get(r, "stars"),
     distance  |-> Get(r, "distance")]

MapBooks(raw) == [j \in 1..Len(raw) |-> ToBook(raw[j])]

\* ------------------------------------------------------------ call records
IdleCall ==
    [pc |-> "idle", kind |-> None, query |-> <<>>, top_k |-> 0,
     qvec |-> NoVec, ids |-> <<>>, dists |-> <<>>, i |-> 0, results |-> <<>>,
     returned |-> FALSE, out |-> <<>>, exc |-> None, embeds |-> 0,
     searches |-> 0, http |-> 0, items |-> <<>>, summary |-> None,
     attempts |-> 0, outcome |-> None, waits |-> <<>>, llm |-> "not_called",
     resp |-> [results |-> <<>>, content |-> None],
     rr |-> [called |-> FALSE, top_k |-> 0, scores |-> <<>>, out |-> <<>>]]

Callers == DOMAIN call
Queries == DOMAIN D
TopKs == -1..MaxTopK          \* top_k values a direct caller may pass
RequestTopKs == 1..MaxTopK    \* RecommendRequest.top_k: ge=1 (le=20)

\* retrieve returns `list` to its caller: a direct caller is done, the
\* recommend handler goes on to map the items.
Returned(r, list) ==
    IF r.kind = "recommend"
      THEN [r EXCEPT !.returned = TRUE, !.out = list, !.pc = "map"]
      ELSE [r EXCEPT !.returned = TRUE, !.out = list, !.pc = "done"]

\* retrieve raises e: a direct caller sees the exception, the recommend
\* handler turns it into HTTP 500 (fastapi_app.py:159-160).
Raised(r, e) ==
    IF r.kind = "recommend"
      THEN [r EXCEPT !.exc = e, !.http = 500, !.pc = "done"]
      ELSE [r EXCEPT !.exc = e, !.pc = "done"]

\* Mutant: retrieve without the empty-query / top_k guards.
RetrieveV2Enter_NoGuard(r) == [r EXCEPT !.pc = "v2_embed"]

\* BookRetrieverV2.retrieve, lines 103-107: the guards before any work.
RetrieveV2Enter(r) ==
    IF IsBlankQuery(r.query) \/ r.top_k <= 0
      THEN Returned(r, <<>>)
      ELSE [r EXCEPT !.pc = "v2_embed"]

\* BookRetriever.retrieve has no guard: it goes straight to the search.
RetrieveV1Enter(r) == [r EXCEPT !.pc = "v1_search"]

RetrieveEnter(r) ==
    IF retriever.kind = "v2" THEN RetrieveV2Enter(r) ELSE RetrieveV1Enter(r)

\* ---------------------------------------------------------------- startup
\* ensure_faiss_index_v2 (index_loader.py:44-85): the possible outcomes as
\* [error, index, meta].  A download can fail; an extraction overwrites
\* the files the archive contains.
EnsureV2Outcomes(idx, meta, url) ==
    IF idx.exists /\ meta.exists
      THEN { [error |-> None, index |-> idx, meta |-> meta] }
    ELSE IF ~url.set
      THEN { [error |-> "RuntimeError:no_zip_url", index |-> idx, meta |-> meta] }
    ELSE LET ni == IF url.index.exists THEN url.index ELSE idx
             nm == IF url.meta.exists THEN url.meta ELSE meta
         IN  { [error |-> "RequestException:download", index |-> idx, meta |-> meta],
               [error |-> IF ni.exists /\ nm.exists THEN None
                          ELSE "RuntimeError:missing_after_unzip",
                index |-> ni, meta |-> nm] }

\* ensure_faiss_index (index_loader.py:4-42): only index.faiss is checked.
EnsureV1Outcomes(idx, url) ==
    IF idx.exists
      THEN { [error |-> None, index |-> idx] }
    ELSE IF ~url.set
      THEN { [error |-> "RuntimeError:no_zip_url", index |-> idx] }
    ELSE LET ni == IF url.index.exists THEN url.index ELSE idx
         IN  { [error |-> "RequestException:download", index |-> idx],
               [error |-> IF ni.exists THEN None
                          ELSE "RuntimeError:missing_after_unzip",
                index |-> ni] }

\* ------------------------------------------------------------ directories
\* A path is absolute or relative and has its components.
Abs(parts) == [abs |-> TRUE, parts |-> parts]
Rel(parts) == [abs |-> FALSE, parts |-> parts]

\* os.path.join(base, p) / the resolution of p against the working
\* directory: an absolute p stands alone.
Join(base, p) ==
    IF p.abs THEN p ELSE [abs |-> base.abs, parts |-> base.parts \o p.parts]

\* os.path.dirname(__file__) of fastapi_app.py: the backend directory.
BackendDir == Abs(<<"app", "backend">>)

\* fastapi_app._startup, line 98: the directory handed to
\* ensure_faiss_index_v2.
EnsuredV2Dir == Join(BackendDir, Rel(<<"models", "faiss_index_v2">>))

\* get_retriever, line 23, and Path(index_dir) in BookRetrieverV2.__init__:
\* INDEX_V2_DIR or "models/faiss_index_v2", relative to the working
\* directory.
LoadedV2Dir(env, wd) ==
    Join(wd, IF env = NoPath THEN Rel(<<"models", "faiss_index_v2">>) ELSE env)

\* The tail of a load: publish the handle, or fail the process.
Publish(r, withLlm) ==
    /\ loadError' = r.error
    /\ retriever' = r.handle
    /\ loaded' = r.handle
    /\ phase' = IF r.error = None THEN "serving" ELSE "failed"
    /\ recommender' = IF r.error = None /\ withLlm THEN llmConfig ELSE None

FailBoot(e) ==
    /\ loadError' = e
    /\ phase' = "failed"
    /\ UNCHANGED <<retriever, loaded, recommender>>

\* fastapi_app._startup with RETRIEVER_VERSION=v2: ensure_faiss_index_v2 on
\* the directory next to the source file, then get_retriever(), which
\* loads from the directory it resolves itself.
StartupV2 ==
    /\ app = "fastapi" /\ version = "v2" /\ phase = "boot"
    /\ \E e \in EnsureV2Outcomes(indexFile, metaFile, zipUrl) :
         /\ indexFile' = e.index
         /\ metaFile' = e.meta
         /\ indexOrigin' = IF e.index = indexFile THEN indexOrigin ELSE ZipIndexOrigin
         /\ metaOrigin' = IF e.meta = metaFile THEN metaOrigin ELSE ZipMetaOrigin
         /\ IF e.error # None
              THEN /\ FailBoot(e.error)
                   /\ dirs' = [ensured |-> EnsuredV2Dir, loaded |-> NoPath]
              ELSE LET dir == LoadedV2Dir(INDEX_V2_DIR, cwd)
                       idx == IF dir = EnsuredV2Dir THEN e.index ELSE altStore.index
                       meta == IF dir = EnsuredV2Dir THEN e.meta ELSE altStore.meta
                   IN  /\ Publish(BookRetrieverV2Init(idx, meta), TRUE)
                       /\ dirs' = [ensured |-> EnsuredV2Dir, loaded |-> dir]
    /\ UNCHANGED <<zipUrl, version, D, app, llmConfig, call, build, buildsLeft,
                   jobs, reranker, Inputs>>

\* fastapi_app._startup with any other RETRIEVER_VERSION (v1).
StartupV1 ==
    /\ app = "fastapi" /\ version = "v1" /\ phase = "boot"
    /\ \E e \in EnsureV1Outcomes(indexFile, zipUrl) :
         /\ indexFile' = e.index
         /\ indexOrigin' = IF e.index = indexFile THEN indexOrigin ELSE ZipIndexOrigin
         /\ IF e.error # None THEN FailBoot(e.error)
            ELSE Publish(BookRetrieverInit(e.index), TRUE)
    /\ UNCHANGED <<metaFile, zipUrl, version, D, app, llmConfig, call,
                   build, buildsLeft, jobs, reranker, metaOrigin, Inputs, dirs>>

\* api/fastapi_app.load_retriever: BookRetriever(index_path), no ensure.
ApiStartup ==
    /\ app = "api" /\ phase = "boot"
    /\ Publish(BookRetrieverInit(indexFile), FALSE)
    /\ UNCHANGED <<indexFile, metaFile, zipUrl, version, D, app, llmConfig, call,
                   build, buildsLeft, jobs, reranker, indexOrigin, metaOrigin,
                   Inputs, dirs>>

\* search_smoke_test.main: BookRetrieverV2(index_dir=...) directly.
ScriptLoadV2 ==
    /\ app = "script" /\ version = "v2" /\ phase = "boot"
    /\ Publish(BookRetrieverV2Init(indexFile, metaFile), FALSE)
    /\ UNCHANGED <<indexFile, metaFile, zipUrl, version, D, app, llmConfig, call,
                   build, buildsLeft, jobs, reranker, indexOrigin, metaOrigin,
                   Inputs, dirs>>

\* quick_search.main / main.py: BookRetriever(index_dir) directly.
ScriptLoadV1 ==
    /\ app = "script" /\ version = "v1" /\ phase = "boot"
    /\ Publish(BookRetrieverInit(indexFile), FALSE)
    /\ UNCHANGED <<indexFile, metaFile, zipUrl, version, D, app, llmConfig, call,
                   build, buildsLeft, jobs, reranker, indexOrigin, metaOrigin,
                   Inputs, dirs>>

\* --------------------------------------------------------------- requests
Env == <<indexFile, metaFile, zipUrl, version, D, app, llmConfig, phase,
         loadError, loaded, recommender,
         build, buildsLeft, jobs, reranker, indexOrigin, metaOrigin, Inputs,
         dirs>>

SetCall(c, r) == call' = [call EXCEPT ![c] = r]

\* Mutant: recommend without the `_retriever is None` rejection.
Recommend_NoHandleCheck(c) ==
    /\ app = "fastapi" /\ phase # "failed" /\ call[c].pc = "idle"
    /\ \E q \in Queries, k \in RequestTopKs :
         LET r == [IdleCall EXCEPT !.kind = "recommend", !.query = q, !.top_k = k]
         IN  IF Strip(q) = <<>>
               THEN SetCall(c, [r EXCEPT !.http = 400, !.pc = "done"])
             ELSE SetCall(c, RetrieveEnter(r))
    /\ UNCHANGED <<Env, retriever>>

\* fastapi_app.recommend, lines 145-157: reject, or enter retrieve.
Recommend(c) ==
    /\ app = "fastapi" /\ phase # "failed" /\ call[c].pc = "idle"
    /\ \E q \in Queries, k \in RequestTopKs :
         LET r == [IdleCall EXCEPT !.kind = "recommend", !.query = q, !.top_k = k]
         IN  IF Strip(q) = <<>>
               THEN SetCall(c, [r EXCEPT !.http = 400, !.pc = "done"])
             ELSE IF retriever = NoHandle
               THEN SetCall(c, [r EXCEPT !.http = 500, !.pc = "done"])
             ELSE SetCall(c, RetrieveEnter(r))
    /\ UNCHANGED <<Env, retriever>>

\* api/fastapi_app.recommend_books: retriever.retrieve(query=, top_k=,
\* filters=) inside try/except Exception.  With the handle unset the call
\* raises AttributeError; with a BookRetriever it raises TypeError, since
\* retrieve takes no `filters` argument.  Either way: HTTP 500.
ApiRecommend(c) ==
    /\ app = "api" /\ phase # "failed" /\ call[c].pc = "idle"
    /\ \E q \in Queries, k \in TopKs :
         LET r == [IdleCall EXCEPT !.kind = "api", !.query = q, !.top_k = k]
         IN  SetCall(c, [r EXCEPT !.http = 500, !.pc = "done",
                           !.exc = IF retriever = NoHandle THEN "AttributeError"
                                   ELSE "TypeError:filters"])
    /\ UNCHANGED <<Env, retriever>>

\* A script or library caller invoking retrieve(query, top_k) on the handle
\* it constructed (search_smoke_test.py:58,65, quick_search.py:95,112).
DirectRetrieve(c) ==
    /\ app = "script" /\ phase = "serving" /\ call[c].pc = "idle"
    /\ \E q \in Queries, k \in TopKs :
         SetCall(c, RetrieveEnter([IdleCall EXCEPT !.kind = "direct",
                                                   !.query = q, !.top_k = k]))
    /\ UNCHANGED <<Env, retriever>>

\* ------------------------------------------------- BookRetrieverV2.retrieve
\* Mutant: a failed embedding drops the loaded store.
V2Embed_FailureDropsStore(c) ==
    /\ call[c].pc = "v2_embed"
    /\ \/ /\ SetCall(c, [call[c] EXCEPT !.qvec = EmbedQueryText(call[c].query),
                                       !.embeds = @ + 1, !.pc = "v2_search"])
          /\ UNCHANGED retriever
       \/ /\ SetCall(c, Raised(call[c], "EmbeddingError"))
          /\ retriever' = NoHandle
    /\ UNCHANGED Env

\* line 109: qvec = self._embed_query(query); the encoder may raise.
V2Embed(c) ==
    /\ call[c].pc = "v2_embed"
    /\ \/ SetCall(c, [call[c] EXCEPT !.qvec = EmbedQueryText(call[c].query),
                                    !.embeds = @ + 1, !.pc = "v2_search"])
       \/ SetCall(c, Raised(call[c], "EmbeddingError"))
    /\ UNCHANGED <<Env, retriever>>

\* Mutant: the search removes the farthest vector from the shared index.
V2Search_ConsumesIndex(c) ==
    /\ call[c].pc = "v2_search"
    /\ LET hit == IndexSearch(D[call[c].qvec.text], retriever.ntotal, call[c].top_k)
       IN  SetCall(c, [call[c] EXCEPT !.ids = hit.ids, !.dists = hit.dists,
                                      !.searches = @ + 1, !.i = 1,
                                      !.pc = "v2_loop"])
    /\ retriever' = [retriever EXCEPT !.ntotal = Max(0, @ - 1)]
    /\ UNCHANGED Env

\* lines 113-115: D, I = self.index.search(qvec, top_k)
V2Search(c) ==
    /\ call[c].pc = "v2_search"
    /\ LET hit == IndexSearch(D[call[c].qvec.text], retriever.ntotal, call[c].top_k)
       IN  SetCall(c, [call[c] EXCEPT !.ids = hit.ids, !.dists = hit.dists,
                                      !.searches = @ + 1, !.i = 1,
                                      !.pc = "v2_loop"])
    /\ UNCHANGED <<Env, retriever>>

\* lines 118-139: one iteration of the loop over zip(ids, dists).
V2Loop(c) ==
    /\ call[c].pc = "v2_loop"
    /\ LET r      == call[c]
           row_id == r.ids[r.i]
           next   == IF r.i = Len(r.ids) THEN "v2_sort" ELSE "v2_loop"
       IN  IF row_id < 0
             THEN SetCall(c, [r EXCEPT !.i = @ + 1, !.pc = next])
           ELSE IF MetaLoc(retriever, row_id) = {}
             THEN SetCall(c, Raised(r, "KeyError"))
           ELSE SetCall(c, [r EXCEPT
                  !.results = Append(@, V2Result(retriever, r.i, row_id, r.dists[r.i])),
                  !.i = @ + 1, !.pc = next])
    /\ UNCHANGED <<Env, retriever>>

\* lines 142-143: results.sort(key=score, reverse=True); return results
V2Sort(c) ==
    /\ call[c].pc = "v2_sort"
    /\ SetCall(c, Returned(call[c], SortByScoreDesc(call[c].results)))
    /\ UNCHANGED <<Env, retriever>>

\* --------------------------------------------------- BookRetriever.retrieve
\* lines 137-146: embed "query: ..." and search through the vector store.
\* faiss rejects k < 0; k = 0 is rejected or yields no hits, depending on
\* the faiss build.
V1Search(c) ==
    /\ call[c].pc = "v1_search"
    /\ LET r == call[c]
           found(pairs) ==
             SetCall(c, [r EXCEPT !.qvec = EmbedQueryText(r.query),
                           !.ids = [j \in 1..Len(pairs) |-> pairs[j].row],
                           !.dists = [j \in 1..Len(pairs) |-> pairs[j].dist],
                           !.embeds = @ + 1, !.searches = @ + 1,
                           !.pc = "v1_build"])
       IN  \/ SetCall(c, Raised(r, "EmbeddingError"))
           \/ /\ r.top_k <= 0
              /\ SetCall(c, Raised([r EXCEPT !.qvec = EmbedQueryText(r.query),
                                              !.embeds = @ + 1, !.searches = @ + 1],
                                   "FaissError:k"))
           \/ /\ r.top_k = 0
              /\ found(<<>>)
           \/ /\ r.top_k > 0
              /\ found(V1Pairs(retriever, D[r.query], r.top_k))
    /\ UNCHANGED <<Env, retriever>>

\* lines 148-188: cosines, set-relative scores, stars, result dicts, sort.
V1Build(c) ==
    /\ call[c].pc = "v1_build"
    /\ LET r == call[c]
           pairs == [j \in 1..Len(r.ids) |-> [row |-> r.ids[j], dist |-> r.dists[j]]]
       IN  SetCall(c, Returned(r, V1Results(pairs)))
    /\ UNCHANGED <<Env, retriever>>

\* ------------------------------------------------ recommend: map, LLM, reply
\* stop_after_attempt(n) of the two DeepSeekRecommender variants.
StopAttemptsIntegration == 2
StopAttemptsIntergration == 3

\* Mutant: one attempt more than configured.
StopAfterAttempt_OffByOne(variant) ==
    IF variant = "llm_integration" THEN StopAttemptsIntegration + 1
    ELSE StopAttemptsIntergration + 1

StopAfterAttempt(variant) ==
    IF variant = "llm_integration" THEN StopAttemptsIntegration
    ELSE StopAttemptsIntergration

\* fastapi_app.py:162-206: map the raw items, then decide on the LLM call.
MapItems(c) ==
    /\ call[c].pc = "map"
    /\ LET items == MapBooks(call[c].out)
       IN  SetCall(c, [call[c] EXCEPT !.items = items,
                         !.pc = IF recommender # None /\ items # <<>>
                                  THEN "llm" ELSE "respond"])
    /\ UNCHANGED <<Env, retriever>>

\* Mutant: an exception of the LLM call propagates out of recommend.
LlmAttempt_Propagates(c) ==
    /\ call[c].pc = "llm"
    /\ LET r == [call[c] EXCEPT !.attempts = @ + 1]
       IN  \/ SetCall(c, [r EXCEPT !.outcome = "response", !.summary = "text",
                                   !.llm = "ok", !.pc = "respond"])
           \/ IF r.attempts < StopAfterAttempt(recommender)
                THEN SetCall(c, [r EXCEPT !.outcome = "RequestException",
                                          !.pc = "llm_wait"])
                ELSE SetCall(c, [r EXCEPT !.outcome = "RequestException",
                                          !.llm = "raised", !.http = 500,
                                          !.pc = "done"])
           \/ SetCall(c, [r EXCEPT !.outcome = "KeyError", !.llm = "raised",
                                   !.http = 500, !.pc = "done"])
    /\ UNCHANGED <<Env, retriever>>

\* One HTTP attempt of generate_recommendation under tenacity's @retry:
\* requests.post with a finite timeout ends with a response, a
\* RequestException (Timeout, ConnectionError, HTTPError) or, on an
\* unexpected response body, another exception (KeyError).  Only a
\* RequestException before the attempt limit leads to a retry; everything
\* else ends the call, and recommend's `except Exception` absorbs a raise
\* (fastapi_app.py:207-215).
LlmAttempt(c) ==
    /\ call[c].pc = "llm"
    /\ LET r == [call[c] EXCEPT !.attempts = @ + 1]
       IN  \/ SetCall(c, [r EXCEPT !.outcome = "response", !.summary = "text",
                                   !.llm = "ok", !.pc = "respond"])
           \/ IF r.attempts < StopAfterAttempt(recommender)
                THEN SetCall(c, [r EXCEPT !.outcome = "RequestException",
                                          !.pc = "llm_wait"])
                ELSE SetCall(c, [r EXCEPT !.outcome = "RequestException",
                                          !.llm = "raised", !.pc = "respond"])
           \/ SetCall(c, [r EXCEPT !.outcome = "KeyError", !.llm = "raised",
                                   !.pc = "respond"])
    /\ UNCHANGED <<Env, retriever>>

\* The sleep before the next attempt, in tenths of a second, after the
\* given number of attempts: wait_fixed(0.5) in llm_integration,
\* wait_exponential(multiplier=1, min=4, max=10) in llm_intergration
\* (tenacity: max(min, min(multiplier * 2^(attempt-1), max))).
WaitFixedTenths == 5
WaitExpMinTenths == 40
WaitExpMaxTenths == 100
RECURSIVE Pow2(_)
Pow2(n) == IF n = 0 THEN 1 ELSE 2 * Pow2(n - 1)
WaitTenths(variant, attempt) ==
    IF variant = "llm_integration" THEN WaitFixedTenths
    ELSE Max(WaitExpMinTenths, Min(10 * Pow2(attempt - 1), WaitExpMaxTenths))

\* The wait between two attempts.
LlmWait(c) ==
    /\ call[c].pc = "llm_wait"
    /\ SetCall(c, [call[c] EXCEPT
                     !.waits = Append(@, WaitTenths(recommender, call[c].attempts)),
                     !.pc = "llm"])
    /\ UNCHANGED <<Env, retriever>>

\* fastapi_app.py:226: RecommendResponse(query, results=items, content=summary)
Respond(c) ==
    /\ call[c].pc = "respond"
    /\ SetCall(c, [call[c] EXCEPT
                     !.resp = [results |-> call[c].items, content |-> call[c].summary],
                     !.http = 200, !.pc = "done"])
    /\ UNCHANGED <<Env, retriever>>

\* ============================================================== builders
\* The record of the builder script now running or last run.  held is
\* the number of embedding vectors that variables of the run still
\* reference outside the vector index, peak the largest number of such
\* vectors alive at one moment of the run.
NoJob == [tool |-> None, table |-> NoTable, B |-> 0]
IdleBuild ==
    [pc |-> "idle", job |-> NoJob, run |-> 0, cols |-> <<>>, rows |-> <<>>,
     start |-> 0, index |-> <<>>, batches |-> <<>>, embedCalls |-> 0,
     embedded |-> 0, docs |-> <<>>, wrote |-> {}, error |-> None,
     checked |-> {}, report |-> None, held |-> 0, peak |-> 0]

\* What a builder leaves alone: the serving process and its configuration,
\* and (until it writes) the artifacts on disk.
Process == <<zipUrl, version, D, app, llmConfig, phase, loadError, retriever,
             loaded, recommender, call, jobs, reranker, Inputs, dirs>>
Disk == <<indexFile, metaFile, indexOrigin, metaOrigin>>

BuildRunning == build.pc \notin {"idle", "done", "failed", "killed"}

\* A run of `tool` may start: builds against one output directory are
\* serialised, and the directory observed is that of the configured
\* retriever generation.
CanStart(tool, gen) ==
    /\ buildsLeft > 0 /\ ~BuildRunning /\ version = gen
    /\ \E j \in jobs : j.tool = tool

StartedBuild(j) ==
    [IdleBuild EXCEPT !.job = j, !.run = build.run + 1]

BuildFailed(b, e) == [b EXCEPT !.pc = "failed", !.error = e]

MetaCols == <<"row_id", "title", "author", "description">>

\* Mutant: _ensure_columns without reset_index(drop=True): row_id is the
\* index label the record had in the input.
EnsureColumns_KeepsInputIndex(t) ==
    IF {"title", "author", "description"} \ t.cols # {}
      THEN [error |-> "ValueError:columns", cols |-> <<>>, rows |-> <<>>]
      ELSE [error |-> None, cols |-> MetaCols,
            rows |-> [i \in 1..Len(t.labels) |->
                        [row_id |-> t.labels[i],
                         title |-> Cell(t.name, i - 1, "title"),
                         author |-> Cell(t.name, i - 1, "author"),
                         description |-> Cell(t.name, i - 1, "description")]]]

\* _ensure_columns (build_index_v2.py:75-87) and the same steps of
\* make_meta_v2.main (44-53): the three columns are required; row_id is the
\* position in iteration order; only the four columns are kept.
EnsureColumns(t) ==
    IF {"title", "author", "description"} \ t.cols # {}
      THEN [error |-> "ValueError:columns", cols |-> <<>>, rows |-> <<>>]
      ELSE [error |-> None, cols |-> MetaCols,
            rows |-> [i \in 1..Len(t.labels) |->
                        [row_id |-> i - 1,
                         title |-> Cell(t.name, i - 1, "title"),
                         author |-> Cell(t.name, i - 1, "author"),
                         description |-> Cell(t.name, i - 1, "description")]]]

\* One labelled part of a passage text: "제목: ...", " / 저자: ...",
\* " / 출판사: ...", "\n설명: ...".
Seg(label, text) == [label |-> label, text |-> text]

\* _make_passage_text: the text embedded for one metadata row: the prefix
\* and the three parts, each always written, the description cut to
\* MAX_CHARS.  The arguments are the cells of df_meta, whose strings are
\* those of the input after fillna("").astype(str).  The vector is
\* identified with the text it was computed from.
MakePassageText(title, author, desc) ==
    [prefix |-> PassagePrefix, title |-> title, author |-> author,
     description |-> desc,
     segments |-> << Seg("title", FillNaStr(Raw(title))),
                     Seg("author", FillNaStr(Raw(author))),
                     Seg("description",
                         PySliceTo(FillNaStr(Raw(desc)), MAX_CHARS)) >>]

\* The texts of df_meta.loc[i] for i in range(lo, hi).
BatchTexts(rows, lo, hi) ==
    [k \in 1..(hi - lo) |->
       LET r == rows[lo + k]
       IN  MakePassageText(r.title, r.author, r.description)]

\* The metadata table as the load path sees it.
WrittenMeta(cols, rows) ==
    [exists |-> TRUE,
     has_row_id |-> \E k \in 1..Len(cols) : cols[k] = "row_id",
     row_ids |-> [i \in 1..Len(rows) |-> rows[i].row_id]]

\* build_index_v2, lines 103-125: load, _ensure_columns, model load, and
\* the empty-dataset check.
BuildV2Start ==
    /\ CanStart("build_index_v2", "v2")
    /\ \E j \in jobs :
         /\ j.tool = "build_index_v2"
         /\ LET e == EnsureColumns(j.table)
                b == [StartedBuild(j) EXCEPT !.cols = e.cols, !.rows = e.rows]
            IN  build' = IF e.error # None THEN BuildFailed(b, e.error)
                         ELSE IF Len(e.rows) = 0 THEN BuildFailed(b, "ValueError:empty")
                         ELSE [b EXCEPT !.pc = "v2_first"]
    /\ buildsLeft' = buildsLeft - 1
    /\ UNCHANGED <<Process, Disk>>

\* Mutant: a batch whose encoding fails still leaves its first vector in
\* the index.
EncodeAndAdd_KeepsPartialBatch(b, lo, hi, n) ==
    \/ build' = [b EXCEPT !.index = @ \o BatchTexts(b.rows, lo, hi),
                          !.batches = Append(@, [lo |-> lo, hi |-> hi]),
                          !.embedCalls = @ + 1, !.embedded = @ + (hi - lo),
                          !.start = lo + b.job.B,
                          !.peak = Max(@, b.held + (hi - lo)),
                          !.held = Min(b.job.B, n) + (hi - lo),
                          !.pc = IF lo + b.job.B < n THEN "v2_rest"
                                 ELSE "v2_write_index"]
    \/ build' = BuildFailed([b EXCEPT !.embedCalls = @ + 1,
                                      !.index = @ \o BatchTexts(b.rows, lo, lo + 1)],
                            "EmbeddingError")

\* One model.encode + index.add over rows [lo, hi): the encoder returns
\* one vector per text, or raises and the build aborts.  While encode
\* returns the new array, first_emb and the emb of the iteration before
\* are still bound; afterwards first_emb and the new emb are.
EncodeAndAdd(b, lo, hi, n) ==
    \/ build' = [b EXCEPT !.index = @ \o BatchTexts(b.rows, lo, hi),
                          !.batches = Append(@, [lo |-> lo, hi |-> hi]),
                          !.embedCalls = @ + 1, !.embedded = @ + (hi - lo),
                          !.start = lo + b.job.B,
                          !.peak = Max(@, b.held + (hi - lo)),
                          !.held = Min(b.job.B, n) + (hi - lo),
                          !.pc = IF lo + b.job.B < n THEN "v2_rest"
                                 ELSE "v2_write_index"]
    \/ build' = BuildFailed([b EXCEPT !.embedCalls = @ + 1], "EmbeddingError")

\* Mutant: the loop over the remaining batches starts one row late.
BuildV2First_SkipsARow ==
    /\ build.pc = "v2_first"
    /\ LET n == Len(build.rows)
           first_end == Min(build.job.B, n)
           nextpc(st) == IF first_end + 1 < n THEN "v2_rest" ELSE "v2_write_index"
       IN  \/ build' = [build EXCEPT !.index = @ \o BatchTexts(build.rows, 0, first_end),
                           !.batches = Append(@, [lo |-> 0, hi |-> first_end]),
                           !.embedCalls = @ + 1, !.embedded = @ + first_end,
                           !.start = first_end + 1, !.pc = nextpc(0),
                           !.held = first_end, !.peak = first_end]
           \/ build' = BuildFailed([build EXCEPT !.embedCalls = @ + 1], "EmbeddingError")
    /\ UNCHANGED <<Process, Disk, buildsLeft>>

\* lines 127-150: the first batch [0, min(BATCH_SIZE, n)) fixes the
\* dimension and creates the index; the loop then starts at first_end.
BuildV2First ==
    /\ build.pc = "v2_first"
    /\ LET n == Len(build.rows)
           first_end == Min(build.job.B, n)
           nextpc(st) == IF first_end < n THEN "v2_rest" ELSE "v2_write_index"
       IN  \/ build' = [build EXCEPT !.index = @ \o BatchTexts(build.rows, 0, first_end),
                           !.batches = Append(@, [lo |-> 0, hi |-> first_end]),
                           !.embedCalls = @ + 1, !.embedded = @ + first_end,
                           !.start = first_end, !.pc = nextpc(0),
                           !.held = first_end, !.peak = first_end]
           \/ build' = BuildFailed([build EXCEPT !.embedCalls = @ + 1], "EmbeddingError")
    /\ UNCHANGED <<Process, Disk, buildsLeft>>

\* lines 153-176: one iteration of `for start in range(first_end, n, BATCH_SIZE)`.
BuildV2Rest ==
    /\ build.pc = "v2_rest"
    /\ LET n == Len(build.rows)
           end == Min(build.start + build.job.B, n)
       IN  EncodeAndAdd(build, build.start, end, n)
    /\ UNCHANGED <<Process, Disk, buildsLeft>>

\* line 184: faiss.write_index(index, index_path)
BuildV2WriteIndex ==
    /\ build.pc = "v2_write_index"
    /\ indexFile' = [exists |-> TRUE, ntotal |-> Len(build.index)]
    /\ indexOrigin' = [run |-> build.run, ds |-> build.job.table,
                       vecs |-> build.index]
    /\ build' = [build EXCEPT !.wrote = @ \cup {"index"}, !.pc = "v2_write_meta"]
    /\ UNCHANGED <<Process, metaFile, metaOrigin, buildsLeft>>

\* lines 185-190: df_meta.to_parquet(meta_path); print the two file sizes;
\* return.  Neither artifact is opened again.
BuildV2WriteMeta ==
    /\ build.pc = "v2_write_meta"
    /\ metaFile' = WrittenMeta(build.cols, build.rows)
    /\ metaOrigin' = [run |-> build.run, ds |-> build.job.table,
                      cols |-> build.cols, rows |-> build.rows]
    /\ build' = [build EXCEPT !.wrote = @ \cup {"meta"}, !.report = "saved",
                              !.held = 0, !.pc = "done"]
    /\ UNCHANGED <<Process, indexFile, indexOrigin, buildsLeft>>

\* The builder process is interrupted (killed, out of memory, power loss)
\* wherever it stands.
BuildKilled ==
    /\ BuildRunning
    /\ build' = [build EXCEPT !.pc = "killed", !.error = "Interrupted"]
    /\ UNCHANGED <<Process, Disk, buildsLeft>>

\* make_meta_v2.main: rewrites meta.parquet from the input table and
\* leaves index.faiss alone.
MakeMetaV2 ==
    /\ CanStart("make_meta_v2", "v2")
    /\ \E j \in jobs :
         /\ j.tool = "make_meta_v2"
         /\ LET e == EnsureColumns(j.table)
                b == [StartedBuild(j) EXCEPT !.cols = e.cols, !.rows = e.rows]
            IN  IF e.error # None
                  THEN /\ build' = BuildFailed(b, e.error)
                       /\ UNCHANGED <<metaFile, metaOrigin>>
                  ELSE /\ build' = [b EXCEPT !.wrote = {"meta"}, !.pc = "done"]
                       /\ metaFile' = WrittenMeta(e.cols, e.rows)
                       /\ metaOrigin' = [run |-> b.run, ds |-> j.table,
                                         cols |-> e.cols, rows |-> e.rows]
    /\ buildsLeft' = buildsLeft - 1
    /\ UNCHANGED <<Process, indexFile, indexOrigin>>

\* ----------------------------------------------- generation-1 builders

\* str(row.get(col, "") or ""), followed by .strip() in row_to_doc only.
V1Str(cell, strip) ==
    IF strip THEN Strip(StrOr(Raw(cell))) ELSE StrOr(Raw(cell))

\* `x or None` in a Document's metadata: None for the empty string.
NoneVal == [ds |-> None, row |-> -2, col |-> None]
OrNone(x, strip) == IF V1Str(x, strip) = <<>> THEN NoneVal ELSE x

\* The part of page_content for one field: written only when the string
\* is not empty, and written whole.
OptSeg(label, cell, strip) ==
    IF V1Str(cell, strip) = <<>> THEN <<>>
    ELSE << Seg(label, V1Str(cell, strip)) >>

\* A Document: the cells that went into page_content, the parts of the
\* text (the title always, the others when not empty), and its metadata.
Doc(title, author, publisher, isbn, desc, metaTitle, strip) ==
    [text |-> [prefix |-> PassagePrefix, title |-> title, author |-> author,
               publisher |-> publisher, description |-> desc,
               segments |-> << Seg("title", V1Str(title, strip)) >>
                            \o OptSeg("author", author, strip)
                            \o OptSeg("publisher", publisher, strip)
                            \o OptSeg("description", desc, strip)],
     meta |-> [title |-> metaTitle, author |-> OrNone(author, strip),
               publisher |-> OrNone(publisher, strip),
               isbn |-> OrNone(isbn, strip),
               description |-> OrNone(desc, strip)]]

\* row_to_doc of BookIndexer.build_index_from_csv (retriever.py:65-87).
RowToDoc(t, pos) ==
    LET title == CellOr(t, pos, PickCol(t.cols, TitleAliases))
    IN  Doc(title,
            CellOr(t, pos, PickCol(t.cols, AuthorAliases)),
            CellOr(t, pos, PickCol(t.cols, PublisherAliases)),
            CellOr(t, pos, PickCol(t.cols, IsbnAliases)),
            CellOr(t, pos, PickCol(t.cols, DescAliasesIndexer)),
            title, TRUE)

\* to_documents of build_index_from_csv.py (78-100): without a title
\* column tcol falls back to "title" and r.get(tcol, "") is "".
ToDocuments(t) ==
    LET picked == PickCol(t.cols, TitleAliases)
        tcol == IF picked # None THEN picked ELSE "title"
    IN  [i \in 1..Len(t.labels) |->
           LET title == CellOr(t, i - 1, tcol)
           IN  Doc(title,
                   CellOr(t, i - 1, PickCol(t.cols, AuthorAliases)),
                   EmptyStr, EmptyStr,
                   CellOr(t, i - 1, PickCol(t.cols, DescAliasesCsv)),
                   OrNone(title, FALSE), FALSE)]

\* vector_db.save_local / vstore.save_local: index.faiss with its docstore
\* (index.pkl), then the post-write checks of the caller and what it
\* reports.
SaveLocal(docs, checks, report) ==
    /\ indexFile' = [exists |-> TRUE, ntotal |-> Len(docs)]
    /\ indexOrigin' = [run |-> build.run, ds |-> build.job.table,
                       vecs |-> [i \in 1..Len(docs) |-> docs[i].text]]
    /\ build' = [build EXCEPT !.wrote = {"index"}, !.checked = checks,
                              !.report = report, !.pc = "done"]

\* BookIndexer.build_index_from_csv, lines 47-63 and, for an empty table,
\* the loop that does not run and the assertion of line 105.
IndexerStart ==
    /\ CanStart("BookIndexer", "v1")
    /\ \E j \in jobs :
         /\ j.tool = "BookIndexer"
         /\ LET b == StartedBuild(j)
            IN  build' =
                  IF PickCol(j.table.cols, TitleAliases) = None
                    THEN BuildFailed(b, "ValueError:title")
                  ELSE IF Len(j.table.labels) = 0
                    THEN BuildFailed(b, "AssertionError:no_documents")
                  ELSE [b EXCEPT !.pc = "ix_batch"]
    /\ buildsLeft' = buildsLeft - 1
    /\ UNCHANGED <<Process, Disk>>

\* lines 92-103: one iteration of `for start in range(0, total, batch_size)`:
\* FAISS.from_documents for the first chunk, add_documents afterwards; the
\* vectors of the chunk live inside that call only.
IndexerBatch ==
    /\ build.pc = "ix_batch"
    /\ LET total == Len(build.job.table.labels)
           start == build.start
           end == Min(start + build.job.B, total)
           docs == [k \in 1..(end - start) |-> RowToDoc(build.job.table, start + k - 1)]
       IN  \/ build' = [build EXCEPT !.docs = @ \o docs,
                           !.batches = Append(@, [lo |-> start, hi |-> end]),
                           !.embedCalls = @ + 1, !.embedded = @ + (end - start),
                           !.start = start + build.job.B,
                           !.peak = Max(@, end - start),
                           !.pc = IF start + build.job.B < total THEN "ix_batch"
                                  ELSE "ix_save"]
           \/ build' = BuildFailed([build EXCEPT !.embedCalls = @ + 1], "EmbeddingError")
    /\ UNCHANGED <<Process, Disk, buildsLeft>>

\* lines 105-108: assert vector_db is not None; vector_db.save_local(index_dir)
IndexerSave ==
    /\ build.pc = "ix_save"
    /\ SaveLocal(build.docs, {}, "saved")
    /\ UNCHANGED <<Process, metaFile, metaOrigin, buildsLeft>>

\* build_index_from_csv.main, lines 128-136: load_books_df warns about an
\* empty CSV and returns it; to_documents builds the documents.
CsvStart ==
    /\ CanStart("build_index_from_csv", "v1")
    /\ \E j \in jobs :
         /\ j.tool = "build_index_from_csv"
         /\ build' = [StartedBuild(j) EXCEPT !.docs = ToDocuments(j.table),
                                             !.pc = "csv_embed"]
    /\ buildsLeft' = buildsLeft - 1
    /\ UNCHANGED <<Process, Disk>>

\* line 148: FAISS.from_documents(docs, emb) hands all texts to
\* emb.embed_documents, which embeds them batch by batch (with no text the
\* wrapper's loop does not run and it returns []); the store is then built
\* from the vectors, which fails on an empty list (IndexError on the
\* dimension of the first vector).  ProgressEmbeddings.embed_documents
\* (38-56) extends one list `vectors` with every batch and returns it, so
\* the vectors of all n texts are alive before the index exists.
CsvEmbed ==
    /\ build.pc = "csv_embed"
    /\ LET n == Len(build.docs)
           b == [build EXCEPT !.embedCalls = @ + 1]
       IN  \/ build' = IF n = 0 THEN BuildFailed(b, "IndexError:no_vectors")
                        ELSE [b EXCEPT !.embedded = n, !.peak = n,
                                       !.batches = <<[lo |-> 0, hi |-> n]>>,
                                       !.pc = "csv_save"]
           \/ /\ n > 0
              /\ build' = BuildFailed(b, "EmbeddingError")
    /\ UNCHANGED <<Process, Disk, buildsLeft>>

\* lines 153-161: vstore.save_local(out_dir), then files_exist, which looks
\* for index.faiss, index.pkl and docstore.pkl by name only and logs the
\* outcome; save_local writes no docstore.pkl, so the outcome logged is
\* the error "some artifacts are missing".  Nothing is re-opened.
CsvSave ==
    /\ build.pc = "csv_save"
    /\ SaveLocal(build.docs, {"files_exist"}, "artifacts_missing")
    /\ UNCHANGED <<Process, metaFile, metaOrigin, buildsLeft>>

\* ------------------------------------------------------ optional reranker

\* sorted(candidates, key=rerank_score, reverse=True): stable, descending.
RECURSIVE InsertByRerankScore(_, _)
InsertByRerankScore(sorted, x) ==
    IF sorted = <<>> THEN <<x>>
    ELSE IF Head(sorted).rerank_score >= x.rerank_score
      THEN <<Head(sorted)>> \o InsertByRerankScore(Tail(sorted), x)
      ELSE <<x>> \o sorted

RECURSIVE SortByRerankScore(_)
SortByRerankScore(rs) ==
    IF rs = <<>> THEN <<>>
    ELSE InsertByRerankScore(SortByRerankScore(SubSeq(rs, 1, Len(rs) - 1)), rs[Len(rs)])

\* The candidates with the score model.predict gave each: pos is the
\* candidate's position in the input list (its identity).
Scored(candidates, scores) ==
    [p \in 1..Len(candidates) |->
       [pos |-> p, item |-> candidates[p], rerank_score |-> scores[p]]]

\* Mutant: the list is cut to top_k before it is sorted.
RerankList_CutsBeforeSort(candidates, scores, top_k) ==
    SortByRerankScore(PySliceTo(Scored(candidates, scores), top_k))

\* BookReranker.rerank (reranker.py:16-45).
RerankList(candidates, scores, top_k) ==
    PySliceTo(SortByRerankScore(Scored(candidates, scores)), top_k)

RerankTopKs == -1..MaxTopK
RerankScores == 0..1

\* A caller passes the list retrieve returned to rerank; the cross-encoder
\* scores each (query, content) pair.
Rerank(c) ==
    /\ reranker # None
    /\ call[c].pc = "done" /\ call[c].kind = "direct" /\ call[c].returned
    /\ ~call[c].rr.called
    /\ \E k \in RerankTopKs, sc \in [1..Len(call[c].out) -> RerankScores] :
         SetCall(c, [call[c] EXCEPT !.rr =
                       [called |-> TRUE, top_k |-> k, scores |-> sc,
                        out |-> RerankList(call[c].out, sc, k)]])
    /\ UNCHANGED <<Env, retriever>>

\* ------------------------------------------------------------------- Next
Next ==
    \/ StartupV2
    \/ StartupV1
    \/ ApiStartup
    \/ ScriptLoadV2
    \/ ScriptLoadV1
    \/ \E c \in Callers : Recommend(c)
    \/ \E c \in Callers : ApiRecommend(c)
    \/ \E c \in Callers : DirectRetrieve(c)
    \/ \E c \in Callers : V2Embed(c)
    \/ \E c \in Callers : V2Search(c)
    \/ \E c \in Callers : V2Loop(c)
    \/ \E c \in Callers : V2Sort(c)
    \/ \E c \in Callers : V1Search(c)
    \/ \E c \in Callers : V1Build(c)
    \/ \E c \in Callers : MapItems(c)
    \/ \E c \in Callers : LlmAttempt(c)
    \/ \E c \in Callers : LlmWait(c)
    \/ \E c \in Callers : Respond(c)
    \/ \E c \in Callers : Rerank(c)
    \/ BuildV2Start
    \/ BuildV2First
    \/ BuildV2Rest
    \/ BuildV2WriteIndex
    \/ BuildV2WriteMeta
    \/ BuildKilled
    \/ MakeMetaV2
    \/ IndexerStart
    \/ IndexerBatch
    \/ IndexerSave
    \/ CsvStart
    \/ CsvEmbed
    \/ CsvSave

\* ------------------------------------------------------------------- Init
Apps == {"fastapi", "api", "script"}
Versions == {"v1", "v2"}
Rows == 0..(MaxRows - 1)

\* A store as the v2 builder writes it: n vectors, row_id = 0..n-1.
BuiltIndex(n) == [exists |-> TRUE, ntotal |-> n]
BuiltMeta(n) ==
    [exists |-> TRUE, has_row_id |-> TRUE, row_ids |-> [i \in 1..n |-> i - 1]]

\* Squared distances the search may report (units of 2e-8): below 0
\* (-0.5), exact match, two values that round to the same score,
\* mid-range (1.0), and above 2 (4.0: cosine -1 before the clamp).
DistVals == {-(ONE \div 4), 0, 30, 50, ONE \div 2, 2 * ONE}

\* Input tables whose every field is a short non-empty string.
PlainContent ==
    [title |-> Text(<<"t">>), author |-> Text(<<"k">>),
     description |-> Text(<<"d">>), publisher |-> Text(<<"p">>),
     isbn |-> Text(<<"9">>)]

ProcessAtBoot(n) ==
    /\ dirs = NoDirs
    /\ phase = "boot"
    /\ loadError = None
    /\ retriever = NoHandle
    /\ loaded = NoHandle
    /\ recommender = None
    /\ call = [c \in 1..n |-> IdleCall]
    /\ app \in Apps
    /\ version \in Versions

\* The server is started in the backend directory with INDEX_V2_DIR
\* unset, and nothing lies in any other directory.
DefaultDeployment ==
    /\ INDEX_V2_DIR = NoPath
    /\ cwd = BackendDir
    /\ altStore = [index |-> NoIndex, meta |-> NoMeta]

BootState(n) ==
    /\ content = PlainContent
    /\ DefaultDeployment
    /\ ProcessAtBoot(n)

\* No builder runs: the artifacts on disk are given.
NoBuilds ==
    /\ build = IdleBuild
    /\ buildsLeft = 0
    /\ jobs = {}
    /\ reranker = None
    /\ indexOrigin = NoIndexOrigin
    /\ metaOrigin = NoMetaOrigin

Tools == {"build_index_v2", "make_meta_v2", "BookIndexer", "build_index_from_csv"}

\* An empty output directory and builder runs on offer.
Unbuilt(n, js) ==
    /\ build = IdleBuild
    /\ buildsLeft = n
    /\ jobs = js
    /\ indexFile = NoIndex /\ indexOrigin = NoIndexOrigin
    /\ metaFile = NoMeta /\ metaOrigin = NoMetaOrigin
    /\ zipUrl = NoZip

\* One pass through the lifecycle: one builder run over a full table, then
\* a load by any of the programs, then its requests, reranked when direct.
InitLifecycle ==
    /\ BootState(1)
    /\ Unbuilt(1, { [tool |-> t, table |-> Table("A", AllCols, MaxRows), B |-> 1] :
                      t \in Tools })
    /\ reranker = "cross-encoder"
    /\ llmConfig = "llm_integration"
    /\ D = [q \in {<<"a">>} |-> [i \in Rows |-> IF i = 0 THEN 30 ELSE ONE \div 2]]

\* Load path: every combination of artifacts on disk, one caller.
InitLoadStores ==
    /\ BootState(1)
    /\ NoBuilds
    /\ indexFile \in {NoIndex} \cup IndexFiles
    /\ metaFile \in {NoMeta} \cup MetaTables
    /\ zipUrl \in {NoZip,
                   [set |-> TRUE, index |-> BuiltIndex(1), meta |-> BuiltMeta(1)],
                   [set |-> TRUE, index |-> BuiltIndex(MaxRows), meta |-> NoMeta]}
    /\ llmConfig = "llm_integration"
    /\ D = [q \in {<<" ">>, <<"a">>} |-> [i \in Rows |-> 0]]

InitLoad == InitLoadStores \/ InitLifecycle

\* Retrieval: one caller, one query, every distance profile.
InitRetrieveStores ==
    /\ BootState(1)
    /\ NoBuilds
    /\ \/ \E n \in 0..MaxRows :
            /\ indexFile = BuiltIndex(n)
            /\ metaFile \in {BuiltMeta(n),
                             [BuiltMeta(n) EXCEPT !.row_ids = [i \in 1..n |-> 0]],
                             [BuiltMeta(n) EXCEPT !.row_ids = [i \in 1..n |-> i]]}
            /\ zipUrl = NoZip
       \/ /\ indexFile = NoIndex
          /\ metaFile = NoMeta
          /\ zipUrl = [set |-> TRUE, index |-> BuiltIndex(MaxRows), meta |-> BuiltMeta(MaxRows)]
    /\ llmConfig = "llm_integration"
    /\ \E q \in {<<>>, <<" ">>, <<"a">>, <<" ", "a">>} :
         D \in [{q} -> [Rows -> DistVals]]

InitRetrieve == InitRetrieveStores \/ InitLifecycle

\* Serving: concurrent callers against one loaded store.  Either no
\* summariser is configured and the store is as built or has a metadata
\* table whose first row_id is out of range, or the generation-1 server
\* runs with the summariser on a store as built.
InitServeStores ==
    /\ BootState(MaxCallers)
    /\ NoBuilds
    /\ indexFile = BuiltIndex(MaxRows)
    /\ zipUrl = NoZip
    /\ \/ /\ metaFile \in {BuiltMeta(MaxRows),
                           [BuiltMeta(MaxRows) EXCEPT !.row_ids[1] = MaxRows]}
          /\ llmConfig = None
       \/ /\ metaFile = BuiltMeta(MaxRows)
          /\ app = "fastapi" /\ version = "v1"
          /\ llmConfig = "llm_integration"
    /\ D = [q \in {<<" ">>, <<"a">>} |-> [i \in Rows |-> IF i = 0 THEN 30 ELSE ONE \div 2]]

InitServe == InitServeStores \/ InitLifecycle

SpecLoad == InitLoad /\ [][Next]_vars
SpecRetrieve == InitRetrieve /\ [][Next]_vars
Spec == InitServe /\ [][Next]_vars

\* Summarisation: one request at a time, every recommender configuration.
\* Every HTTP attempt carries a finite timeout and every wait is a finite
\* sleep, so an attempt, a wait and the reply each complete once begun:
\* weak fairness on those steps.
InitSummariseStores ==
    /\ BootState(1)
    /\ NoBuilds
    /\ \/ /\ indexFile = BuiltIndex(MaxRows)
          /\ metaFile = BuiltMeta(MaxRows)
          /\ zipUrl = NoZip
       \/ /\ indexFile = NoIndex
          /\ metaFile = NoMeta
          /\ zipUrl = [set |-> TRUE, index |-> BuiltIndex(1), meta |-> BuiltMeta(1)]
    /\ llmConfig \in {None, "llm_integration", "llm_intergration"}
    /\ D \in [{<<" ">>, <<"a">>} -> [Rows -> {30, ONE \div 2}]]

InitSummarise == InitSummariseStores \/ InitLifecycle

SpecSummarise == InitSummarise /\ [][Next]_vars

FairSpec ==
    /\ InitSummarise
    /\ [][Next]_vars
    /\ WF_vars(LlmAttempt(1)) /\ WF_vars(LlmWait(1)) /\ WF_vars(Respond(1))

\* Building: one builder run of any tool over any input table and batch
\* size, into an empty output directory, then a load and direct queries.
FullTables ==
    { Table("A", AllCols, n) : n \in 0..MaxRows } \cup { Table("B", AllCols, MaxRows) }
ColumnVariants ==
    { Table("A", cols, MaxRows) :
        cols \in { AllCols \ {"title"},
                   (AllCols \ {"title"}) \cup {"title_ko"},
                   AllCols \ {"author"},
                   AllCols \ {"description"},
                   {"title", "isbn"} } }
BuildJobs ==
    { [tool |-> t, table |-> tb, B |-> b] :
        t \in Tools, tb \in FullTables \cup ColumnVariants, b \in 1..MaxBatch }

InitBuildRuns ==
    /\ BootState(1)
    /\ app = "script"
    /\ Unbuilt(1, BuildJobs)
    /\ reranker = None
    /\ llmConfig = None
    /\ D = [q \in {<<"a">>} |-> [i \in Rows |-> IF i = 0 THEN 30 ELSE ONE \div 2]]

InitBuild == InitBuildRuns \/ InitLifecycle

SpecBuild == InitBuild /\ [][Next]_vars

\* Rebuilding: up to MaxBuilds runs, one after the other, against the same
\* output directory, each over one of three full tables; a load may come
\* at any moment.
RebuildJobs ==
    { [tool |-> t, table |-> tb, B |-> 1] :
        t \in Tools,
        tb \in { Table("A", AllCols, MaxRows), Table("B", AllCols, MaxRows),
                 Table("A", AllCols, 1) } }

InitRebuildRuns ==
    /\ BootState(1)
    /\ app = "script"
    /\ Unbuilt(MaxBuilds, RebuildJobs)
    /\ reranker = None
    /\ llmConfig = None
    /\ D = [q \in {<<"a">>} |-> [i \in Rows |-> IF i = 0 THEN 30 ELSE ONE \div 2]]

InitRebuild == InitRebuildRuns \/ InitLifecycle

SpecRebuild == InitRebuild /\ [][Next]_vars

\* Reranking: a script retrieves from a store as built and hands every
\* returned list to the reranker.
InitRerankRuns ==
    /\ BootState(1)
    /\ app = "script"
    /\ build = IdleBuild /\ buildsLeft = 0 /\ jobs = {}
    /\ indexOrigin = NoIndexOrigin /\ metaOrigin = NoMetaOrigin
    /\ \E n \in 0..MaxRows : indexFile = BuiltIndex(n) /\ metaFile = BuiltMeta(n)
    /\ zipUrl = NoZip
    /\ reranker = "cross-encoder"
    /\ llmConfig = None
    /\ D \in [{<<"a">>} -> [Rows -> {0, ONE \div 2}]]

InitRerank == InitRerankRuns \/ InitLifecycle

SpecRerank == InitRerank /\ [][Next]_vars

\* Passage texts: one builder run of any tool over a one-record table,
\* with or without a publisher column, for every combination of a
\* missing, empty or present author, a missing, empty, short or
\* over-budget description, and an empty or present publisher.
Alphabet == <<"a", "b", "c", "d", "e", "f", "g", "h">>
LongText == SubSeq(Alphabet, 1, MAX_CHARS + 1)
PassageContents ==
    { [PlainContent EXCEPT !.author = a, !.description = d, !.publisher = p] :
        a \in {NaN, Text(<<>>), Text(<<"k">>)},
        d \in {NaN, Text(<<>>), Text(<<"d">>), Text(LongText)},
        p \in {Text(<<>>), Text(<<"p">>)} }
PassageJobs ==
    { [tool |-> t, table |-> tb, B |-> 1] :
        t \in Tools,
        tb \in { Table("A", AllCols, 1), Table("A", AllCols \cup {"publisher"}, 1) } }

InitPassageRuns ==
    /\ ProcessAtBoot(1)
    /\ app = "script"
    /\ content \in PassageContents
    /\ DefaultDeployment
    /\ Unbuilt(1, PassageJobs)
    /\ reranker = None
    /\ llmConfig = None
    /\ D = [q \in {<<"a">>} |-> [i \in Rows |-> IF i = 0 THEN 30 ELSE ONE \div 2]]

InitPassage == InitPassageRuns \/ InitLifecycle

SpecPassage == InitPassage /\ [][Next]_vars

\* Deployment: the generation-2 server started in the backend directory or
\* in its parent, with INDEX_V2_DIR unset, set to the default relative
\* path, to the absolute path of the directory startup ensures, or to
\* another absolute path; a store or nothing in the ensured directory (with
\* or without a zip to fetch) and in the other one.
Deployments ==
    { [env |-> e, cwd |-> w] :
        e \in {NoPath, Rel(<<"models", "faiss_index_v2">>), EnsuredV2Dir,
               Abs(<<"data", "index">>)},
        w \in {BackendDir, Abs(<<"app">>)} }

InitDeployments ==
    /\ ProcessAtBoot(1)
    /\ app = "fastapi" /\ version = "v2"
    /\ content = PlainContent
    /\ NoBuilds
    /\ \E d \in Deployments : INDEX_V2_DIR = d.env /\ cwd = d.cwd
    /\ \/ indexFile = BuiltIndex(MaxRows) /\ metaFile = BuiltMeta(MaxRows) /\ zipUrl = NoZip
       \/ /\ indexFile = NoIndex /\ metaFile = NoMeta
          /\ zipUrl \in {NoZip, [set |-> TRUE, index |-> BuiltIndex(MaxRows),
                                 meta |-> BuiltMeta(MaxRows)]}
    /\ altStore \in {[index |-> NoIndex, meta |-> NoMeta],
                     [index |-> BuiltIndex(1), meta |-> BuiltMeta(1)]}
    /\ llmConfig = None
    /\ D = [q \in {<<"a">>} |-> [i \in Rows |-> IF i = 0 THEN 30 ELSE ONE \div 2]]

InitDeploy == InitDeployments \/ InitLifecycle

SpecDeploy == InitDeploy /\ [][Next]_vars

\* ------------------------------------------- retrieve as run in isolation
\* BookRetrieverV2.retrieve executed start to finish with no other caller:
\* the hit positions that survive the row_id < 0 filter keep their 1-based
\* search rank.
RetrieveV2Alone(h, dv, q, k) ==
    IF IsBlankQuery(q) \/ k <= 0 THEN <<>>
    ELSE LET hit  == IndexSearch(dv, h.ntotal, k)
             kept == { j \in 1..k : hit.ids[j] >= 0 }
             nth(m) == CHOOSE j \in kept : Cardinality({ x \in kept : x <= j }) = m
         IN  SortByScoreDesc(
               [m \in 1..Cardinality(kept) |->
                  V2Result(h, nth(m), hit.ids[nth(m)], hit.dists[nth(m)])])

\* The v2 call raises KeyError when a hit has no metadata row.
RetrieveV2AloneRaises(h, dv, q, k) ==
    /\ ~(IsBlankQuery(q) \/ k <= 0)
    /\ \E j \in 1..k :
         LET id == IndexSearch(dv, h.ntotal, k).ids[j]
         IN  id >= 0 /\ MetaLoc(h, id) = {}

\* BookRetriever.retrieve run in isolation (k = 0 yields no hits when the
\* search accepts it).
RetrieveV1Alone(h, dv, q, k) ==
    IF k <= 0 THEN <<>> ELSE V1Results(V1Pairs(h, dv, k))

RetrieveAlone(h, dv, q, k) ==
    IF h.kind = "v2" THEN RetrieveV2Alone(h, dv, q, k)
    ELSE RetrieveV1Alone(h, dv, q, k)

\* ================================================================ claims
\* A v2 constructor call has run in this process.
V2LoadAttempted ==
    /\ version = "v2" /\ app \in {"fastapi", "script"}
    /\ phase # "boot"
    /\ loadError \notin {"RuntimeError:no_zip_url", "RequestException:download",
                         "RuntimeError:missing_after_unzip"}

\* The outcome of a v2 load against the artifacts it has just read.
LoadedIffCountsMatch ==
    (V2LoadAttempted /\ indexFile.exists /\ metaFile.exists /\ metaFile.has_row_id)
      => /\ (phase = "serving" /\ retriever # NoHandle /\ loadError = None)
              <=> (indexFile.ntotal = Len(metaFile.row_ids))
         /\ (indexFile.ntotal # Len(metaFile.row_ids))
              => (phase = "failed" /\ retriever = NoHandle
                  /\ loadError = "ValueError:count")

\* C1: loading a v2 store whose two artifacts exist and whose metadata has
\* a row_id column succeeds if and only if the index's vector count equals
\* the metadata row count; a mismatch is refused with an error and leaves
\* no handle.  Stated on the step that performs the load, against the
\* artifacts as the load found them.
C1_LoadIffCountsMatch ==
    [][(phase = "boot" /\ phase' # "boot") => LoadedIffCountsMatch']_vars

C1_Witness ==
    /\ V2LoadAttempted /\ indexFile.exists /\ metaFile.exists /\ metaFile.has_row_id
    /\ indexFile.ntotal > Len(metaFile.row_ids) /\ Len(metaFile.row_ids) > 0
    /\ loadError = "ValueError:count"

\* The outcome of a v2 load that found a part of the store missing.
LoadFailedOnMissingPart ==
    (version = "v2" /\ app \in {"fastapi", "script"} /\ phase # "boot"
       /\ (~indexFile.exists \/ ~metaFile.exists \/ ~metaFile.has_row_id))
      => /\ phase = "failed" /\ retriever = NoHandle /\ loadError # None
         /\ \A c \in Callers : ~call[c].returned
         /\ (app = "script" /\ ~indexFile.exists)
              => loadError = "FileNotFoundError:index"
         /\ (app = "script" /\ indexFile.exists /\ ~metaFile.exists)
              => loadError = "FileNotFoundError:meta"
         /\ (indexFile.exists /\ metaFile.exists)
              => loadError = "ValueError:row_id"

\* C2: loading a v2 store fails with an error and yields no handle whenever
\* the index file is missing, the metadata file is missing, or the metadata
\* table has no row_id column.  Stated on the step that performs the load,
\* against the artifacts as the load found them.
C2_LoadFailsOnMissingPart ==
    [][(phase = "boot" /\ phase' # "boot") => LoadFailedOnMissingPart']_vars

C2_Witness ==
    /\ V2LoadAttempted /\ indexFile.exists /\ metaFile.exists
    /\ ~metaFile.has_row_id /\ indexFile.ntotal = Len(metaFile.row_ids)
    /\ indexFile.ntotal > 0
    /\ loadError = "ValueError:row_id" /\ retriever = NoHandle

\* C8: a recommend request that arrives while the process-wide handle is
\* unset is rejected with an error response in the same step: nothing is
\* embedded, searched or returned, and the process keeps running.
C8_RejectedBeforeLoad ==
    [][\A c \in 1..MaxCallers :
         (c \in Callers /\ retriever = NoHandle
            /\ call[c].pc = "idle" /\ call'[c].pc # "idle")
           => /\ call'[c].pc = "done"
              /\ call'[c].http \in {400, 500}
              /\ ~call'[c].returned
              /\ call'[c].resp.results = <<>>
              /\ call'[c].embeds = 0 /\ call'[c].searches = 0
              /\ phase' = phase /\ retriever' = NoHandle]_vars

C8_Witness ==
    /\ phase = "boot" /\ retriever = NoHandle /\ app = "fastapi"
    /\ \E c \in Callers :
         /\ call[c].kind = "recommend" /\ call[c].pc = "done"
         /\ Strip(call[c].query) # <<>> /\ call[c].http = 500

\* C3: retrieve returns at most top_k results (none for a non-positive
\* top_k), and every returned score lies in [0, 1], whatever squared
\* distance the search reported (below 0 and above 2 included).
C3_AtMostTopKScoresInUnitInterval ==
    \A c \in Callers :
      call[c].returned
        => /\ Len(call[c].out) <= Max(call[c].top_k, 0)
           /\ \A j \in 1..Len(call[c].out) :
                call[c].out[j].score >= 0 /\ call[c].out[j].score <= ONE

C3_Witness ==
    \E c \in Callers :
      /\ call[c].returned /\ call[c].top_k = 2 /\ Len(call[c].out) = 2
      /\ \E j \in 1..2 : call[c].out[j].distance < 0
      /\ \E j \in 1..2 : call[c].out[j].distance > ONE

\* C4: the list one retrieve call returns is sorted non-increasing by
\* cosine similarity, both as the score field and as the cosine that the
\* reported distance gives.
C4_SortedNonIncreasing ==
    \A c \in Callers :
      call[c].returned
        => \A i, j \in 1..Len(call[c].out) :
             i < j => /\ call[c].out[i].score >= call[c].out[j].score
                      /\ CosineFromL2Squared(call[c].out[i].distance)
                           >= CosineFromL2Squared(call[c].out[j].distance)

C4_Witness ==
    \E c \in Callers :
      /\ call[c].returned /\ Len(call[c].out) = 2
      /\ call[c].out[1].score > call[c].out[2].score

\* C5: BookRetrieverV2.retrieve called with an empty or whitespace-only
\* query, or with top_k <= 0, returns the empty list without raising and
\* before any query embedding or index search.
C5_V2GuardReturnsEmpty ==
    \A c \in Callers :
      (call[c].kind = "direct" /\ retriever.kind = "v2"
         /\ (IsBlankQuery(call[c].query) \/ call[c].top_k <= 0))
        => /\ call[c].pc = "done" /\ call[c].returned /\ call[c].out = <<>>
           /\ call[c].exc = None
           /\ call[c].embeds = 0 /\ call[c].searches = 0

C5_Witness ==
    \E c \in Callers :
      /\ call[c].kind = "direct" /\ retriever.kind = "v2" /\ retriever.ntotal > 0
      /\ call[c].query = <<" ">> /\ call[c].top_k > 0
      /\ call[c].returned /\ call[c].out = <<>>

\* C6: two retrieve calls with the same query and the same top_k against
\* the unchanged loaded store return identical lists (same order, same
\* score fields).
C6_Deterministic ==
    \A c1, c2 \in Callers :
      (call[c1].returned /\ call[c2].returned
         /\ call[c1].query = call[c2].query /\ call[c1].top_k = call[c2].top_k)
        => call[c1].out = call[c2].out

C6_Witness ==
    \E c1, c2 \in Callers :
      /\ c1 # c2 /\ call[c1].returned /\ call[c2].returned
      /\ call[c1].query = call[c2].query /\ call[c1].top_k = call[c2].top_k
      /\ Len(call[c1].out) = 2 /\ call[c1].out = call[c2].out

\* C7: under any interleaving of concurrent calls the loaded store stays
\* as it was loaded, every call that returns yields the list it yields
\* when run alone, and a call fails on a missing metadata row only if it
\* does so when run alone; failed calls leave the store unchanged too.
C7_ReadOnlyConcurrentQueries ==
    /\ retriever = loaded
    /\ \A c \in Callers :
         /\ call[c].returned
              => call[c].out = RetrieveAlone(loaded, D[call[c].query],
                                             call[c].query, call[c].top_k)
         /\ call[c].exc = "KeyError"
              => RetrieveV2AloneRaises(loaded, D[call[c].query],
                                       call[c].query, call[c].top_k)

C7_Witness ==
    \E c1, c2 \in Callers :
      /\ c1 # c2 /\ retriever # NoHandle /\ retriever = loaded
      /\ call[c1].exc = "EmbeddingError"
      /\ call[c2].returned /\ Len(call[c2].out) = 2
      /\ call[c2].pc = "done"

\* C9: whatever the LLM call does (returns, raises, or is not configured),
\* a recommend request whose retrieval returned ends with a 200 response
\* whose results are exactly the mapped retrieval output; after a failed
\* LLM call the summary is absent and no error reaches the caller.
C9_LlmFailureNeverPropagates ==
    \A c \in Callers :
      (call[c].kind = "recommend" /\ call[c].returned)
        => /\ call[c].pc \in {"map", "llm", "llm_wait", "respond", "done"}
           /\ call[c].exc = None
           /\ call[c].pc = "done"
                => /\ call[c].http = 200
                   /\ call[c].resp.results = MapBooks(call[c].out)
                   /\ call[c].llm = "raised" => call[c].resp.content = None
                   /\ recommender = None => call[c].llm = "not_called"

C9_Witness ==
    \E c \in Callers :
      /\ call[c].kind = "recommend" /\ call[c].pc = "done" /\ call[c].http = 200
      /\ call[c].llm = "raised" /\ call[c].resp.content = None
      /\ Len(call[c].resp.results) = 2

\* C10: one generate_recommendation call makes a bounded number of HTTP
\* attempts (at most 2 in llm_integration, at most 3 in llm_intergration),
\* waits the same bounded time between attempts, retries only after a
\* request-class exception, raises after the last failed attempt, and
\* always ends: a request that has entered the summarisation step gets
\* its response.
C10_AttemptsBounded ==
    \A c \in Callers :
      /\ call[c].attempts <= 3
      /\ recommender = "llm_integration" => call[c].attempts <= 2
      /\ call[c].pc = "llm_wait" => call[c].outcome = "RequestException"
      /\ (call[c].pc = "llm" /\ call[c].attempts > 0)
           => call[c].outcome = "RequestException"
      /\ (call[c].outcome = "RequestException"
            /\ call[c].attempts = (IF recommender = "llm_integration" THEN 2 ELSE 3))
           => call[c].llm = "raised" /\ call[c].pc \in {"respond", "done"}
      /\ call[c].outcome = "KeyError"
           => call[c].llm = "raised" /\ call[c].pc \in {"respond", "done"}
      /\ Len(call[c].waits) <= call[c].attempts
      /\ \A i, j \in 1..Len(call[c].waits) :
           call[c].waits[i] = call[c].waits[j] /\ call[c].waits[i] <= 100

C10_SummarisationBoundedAndTerminates ==
    /\ []C10_AttemptsBounded
    /\ (call[1].pc \in {"llm", "llm_wait"}) ~> (call[1].pc = "done")

C10_Witness ==
    \E c \in Callers :
      /\ recommender = "llm_integration"
      /\ call[c].attempts = 2 /\ call[c].outcome = "RequestException"
      /\ call[c].llm = "raised" /\ call[c].pc = "done" /\ call[c].http = 200

\* The tools that build a vector index from a dataset.
IndexBuilders == {"build_index_v2", "BookIndexer", "build_index_from_csv"}

\* C11: the two artifacts are published as one unit: whenever a load
\* accepts the generation-2 store, index.faiss and meta.parquet were
\* written by the same builder run from the same dataset.  Stated through
\* what it implies for the content: the vectors and the metadata rows of
\* an accepted store were computed from the same input table.
C11_StoreIsOneBuild ==
    [][(retriever.kind # "v2" /\ retriever'.kind = "v2")
         => indexOrigin'.ds = metaOrigin'.ds]_vars

\* C12: a build from an empty dataset ends in an error, and it makes no
\* call to the embedding provider and writes no artifact; for each index
\* builder.
C12_EmptyDatasetFailsBeforeEmbedding ==
    (build.job.tool \in IndexBuilders /\ Len(build.job.table.labels) = 0)
      => /\ build.embedCalls = 0
         /\ build.wrote = {}
         /\ build.pc # "done"
         /\ ~BuildRunning => build.pc \in {"failed", "killed"}

\* C13: a build from a dataset without any of the title columns ends in
\* an error and indexes no document; for each index builder.
C13_NoTitleColumnIsFatal ==
    (build.job.tool \in IndexBuilders
       /\ PickCol(build.job.table.cols, TitleAliases) = None)
      => /\ build.embedded = 0
         /\ build.wrote = {}
         /\ build.pc # "done"
         /\ ~BuildRunning => build.pc \in {"failed", "killed"}

\* C14: a build from a dataset with a title column but without an author
\* column and/or a description column never fails over the missing
\* column, and when it completes every document has the empty string in
\* the missing field.
C14_OptionalColumnsTolerated ==
    LET t == build.job.table
        noAuthor == PickCol(t.cols, AuthorAliases) = None
        noDesc == PickCol(t.cols, DescAliasesCsv) = None
    IN  (build.job.tool \in IndexBuilders /\ "title" \in t.cols
           /\ (noAuthor \/ noDesc))
          => /\ build.error \notin {"ValueError:columns", "ValueError:title"}
             /\ build.pc = "done" =>
                  \A i \in 1..Len(indexOrigin.vecs) :
                    /\ noAuthor => indexOrigin.vecs[i].author = EmptyStr
                    /\ noDesc => indexOrigin.vecs[i].description = EmptyStr

\* C15: every result retrieve returns, from either retriever, carries a
\* star rating, and it is one of 0.5, 1.0, ..., 5.0 (1..10 half stars).
C15_StarsInHalfSteps ==
    \A c \in Callers :
      call[c].returned
        => \A j \in 1..Len(call[c].out) :
             /\ "stars" \in DOMAIN call[c].out[j]
             /\ call[c].out[j].stars \in 1..10

\* C16: in every non-empty result list each result carries a set-relative
\* percent in 10..100, and the first result's is 100 unless all cosine
\* similarities of the list are equal.
C16_RelPctRangeAndTop ==
    \A c \in Callers :
      (call[c].returned /\ call[c].out # <<>>)
        => LET out == call[c].out
               cos(j) == CosineFromL2Squared(out[j].distance)
           IN  /\ \A j \in 1..Len(out) :
                    /\ "rel_pct" \in DOMAIN out[j]
                    /\ out[j].rel_pct \in 10..100
               /\ (\E i, j \in 1..Len(out) : cos(i) # cos(j))
                    => out[1].rel_pct = 100

\* C18: the generation-1 retrieve, called with a blank query or with
\* top_k <= 0, returns the empty list without raising and without
\* embedding or searching.
C18_V1GuardReturnsEmpty ==
    \A c \in Callers :
      (retriever.kind = "v1" /\ call[c].kind = "direct"
         /\ (IsBlankQuery(call[c].query) \/ call[c].top_k <= 0))
        => /\ call[c].exc = None
           /\ call[c].embeds = 0 /\ call[c].searches = 0
           /\ call[c].pc = "done" => (call[c].returned /\ call[c].out = <<>>)

\* What C17 says of one rerank call, but for the length of the result.
RerankedFromCandidates(c) ==
    LET cands == call[c].out
        res == call[c].rr.out
        sc == call[c].rr.scores
        n == Len(cands)
    IN  /\ \A i \in 1..Len(res) :
             /\ res[i].pos \in 1..n
             /\ res[i].item = cands[res[i].pos]
             /\ res[i].rerank_score = sc[res[i].pos]
        /\ \A i, j \in 1..Len(res) : i # j => res[i].pos # res[j].pos
        /\ \A i, j \in 1..Len(res) : i < j => res[i].rerank_score >= res[j].rerank_score
        /\ \A p \in 1..n :
             (\A i \in 1..Len(res) : res[i].pos # p)
               => \A i \in 1..Len(res) : res[i].rerank_score >= sc[p]

V2MetaWritten ==
    /\ build.job.tool \in {"build_index_v2", "make_meta_v2"}
    /\ "meta" \in build.wrote
    /\ metaOrigin.run = build.run

\* C19: the metadata table a generation-2 tool writes for a table of N
\* records has exactly N rows, row i (in iteration order) carries
\* row_id i and the title, author and description of record i whatever
\* index label the record had, the row_ids are unique, and the columns
\* are row_id, title, author and description only.
C19_MetaRowIdsDense ==
    V2MetaWritten
      => LET t == build.job.table
             rows == metaOrigin.rows
         IN  /\ Len(rows) = Len(t.labels)
             /\ \A i \in 1..Len(rows) :
                  /\ rows[i].row_id = i - 1
                  /\ rows[i].title = Cell(t.name, i - 1, "title")
                  /\ rows[i].author = Cell(t.name, i - 1, "author")
                  /\ rows[i].description = Cell(t.name, i - 1, "description")
                  /\ DOMAIN rows[i] = {"row_id", "title", "author", "description"}
             /\ \A i, j \in 1..Len(rows) : i # j => rows[i].row_id # rows[j].row_id
             /\ metaOrigin.cols = <<"row_id", "title", "author", "description">>
             /\ metaFile.row_ids = [i \in 1..Len(t.labels) |-> i - 1]

C19_Witness ==
    /\ V2MetaWritten
    /\ Len(metaOrigin.rows) = MaxRows
    /\ \E i \in 1..MaxRows : build.job.table.labels[i] # i - 1
    /\ "isbn" \in build.job.table.cols

\* The batches build_index_v2 has embedded so far are consecutive, start
\* at row 0, are B rows long but for the last, and the index holds the
\* embedding of row_id i at position i.
BatchesConsecutive ==
    LET n == Len(build.rows)
        B == build.job.B
        bs == build.batches
    IN  /\ \A j \in 1..Len(bs) :
             /\ bs[j].lo = (j - 1) * B
             /\ bs[j].hi = Min(j * B, n)
             /\ bs[j].lo < bs[j].hi
        /\ Len(build.index) = (IF bs = <<>> THEN 0 ELSE bs[Len(bs)].hi)
        /\ \A i \in 1..Len(build.index) :
             /\ build.rows[i].row_id = i - 1
             /\ build.index[i] = MakePassageText(build.rows[i].title,
                                                 build.rows[i].author,
                                                 build.rows[i].description)

\* C20: for N >= 1 records and batch size B >= 1, build_index_v2 embeds
\* consecutive batches [0, min(B, N)), then steps of B, covering row ids
\* 0..N-1 once each in ascending order; when it writes, the index holds N
\* vectors, the i-th the embedding of row_id i, the metadata table has N
\* rows, and the load accepts the store of a completed build.
C20_BatchesCoverRowsInOrder ==
    (build.job.tool = "build_index_v2" /\ build.job.B >= 1 /\ Len(build.rows) >= 1)
      => LET n == Len(build.rows)
         IN  /\ BatchesConsecutive
             /\ build.pc \in {"v2_write_index", "v2_write_meta", "done"}
                  => /\ Len(build.index) = n
                     /\ n = Len(build.job.table.labels)
             /\ "index" \in build.wrote
                  => /\ indexFile.ntotal = n
                     /\ indexOrigin.vecs = build.index
             /\ build.pc = "done"
                  => /\ indexFile.ntotal = Len(metaFile.row_ids)
                     /\ Len(metaFile.row_ids) = n
                     /\ \A i \in 1..n :
                          LET row == metaOrigin.rows[i]
                          IN  /\ row.row_id = i - 1
                              /\ indexOrigin.vecs[i] =
                                   MakePassageText(row.title, row.author, row.description)
                     /\ BookRetrieverV2Init(indexFile, metaFile).error = None

C20_Witness ==
    /\ build.job.tool = "build_index_v2" /\ build.pc = "done"
    /\ Len(build.batches) >= 2 /\ Len(build.rows) = MaxRows
    /\ retriever.kind = "v2" /\ retriever.ntotal = MaxRows

\* C21: when embedding a batch fails during build_index_v2 (the first
\* batch or a later one) the build aborts with that error in the same
\* step, the index in memory gains no vector of the failed batch, the step
\* writes nothing, and the aborted run has written neither artifact: what
\* the output directory held before is still there.
C21_EmbeddingFailureAborts ==
    /\ []((build.job.tool = "build_index_v2" /\ build.error = "EmbeddingError")
            => /\ build.pc = "failed"
               /\ build.wrote = {}
               /\ indexOrigin.run # build.run /\ metaOrigin.run # build.run
               /\ Len(build.index) = build.embedded
               /\ \A i \in 1..Len(build.batches) :
                    build.batches[i].hi <= Len(build.index))
    /\ [][(build.job.tool = "build_index_v2" /\ BuildRunning
             /\ build'.error = "EmbeddingError")
            => (build'.index = build.index /\ UNCHANGED Disk)]_vars

C21_Witness ==
    /\ build.job.tool = "build_index_v2" /\ build.error = "EmbeddingError"
    /\ Len(build.index) >= 1 /\ Len(build.index) < Len(build.rows)
    /\ build.run = 2
    /\ indexOrigin.run = 1 /\ metaOrigin.run = 1
    /\ indexFile.exists /\ metaFile.exists

\* C22: an index builder that has written its artifacts has re-opened
\* them and compared the vector count with the metadata row count before
\* it reports.
C22_PostWriteVerification ==
    (build.job.tool \in IndexBuilders /\ build.pc = "done")
      => "counts" \in build.checked

\* A call of BookRetrieverV2.retrieve whose search has run with a
\* non-empty query and a top_k above the number of vectors held.
SearchedBeyondStore(c) ==
    /\ retriever.kind = "v2"
    /\ call[c].searches > 0
    /\ ~IsBlankQuery(call[c].query)
    /\ call[c].top_k > retriever.ntotal

\* C23: with n vectors loaded, a non-empty query and top_k > n, retrieve
\* skips the negative sentinel ids and returns exactly n results, each
\* joined to one real metadata row; on a store of zero vectors it returns
\* the empty list; the join never raises.
C23_SentinelsSkipped ==
    \A c \in Callers :
      SearchedBeyondStore(c)
        => /\ call[c].exc = None
           /\ call[c].returned
                => /\ Len(call[c].out) = retriever.ntotal
                   /\ \A j \in 1..Len(call[c].out) :
                        /\ call[c].out[j].id \in 0..(retriever.ntotal - 1)
                        /\ Cardinality(call[c].out[j].rows) = 1

\* C25: in every store the load accepts the row_id values are exactly
\* 0..N-1, each once, so every id the search can return joins to exactly
\* one metadata row and the join in retrieve never fails.
C25_AcceptedStoreIsDense ==
    retriever.kind = "v2"
      => /\ \A id \in 0..(retriever.ntotal - 1) :
              Cardinality(MetaLoc(retriever, id)) = 1
         /\ \A c \in Callers :
              /\ call[c].exc # "KeyError"
              /\ \A j \in 1..Len(call[c].results) :
                   Cardinality(call[c].results[j].rows) = 1

\* C24: the final sort of retrieve, keyed on the rounded score, leaves the
\* list in the order of the search (descending raw cosine, equal keys in
\* search order), in both retrievers, and the element at 1-based position
\* i of the returned list has rank i.
C24_SortKeepsRawOrder ==
    \A c \in Callers :
      (call[c].returned /\ retriever.kind \in {"v1", "v2"})
        => LET out == call[c].out
           IN  /\ \A i \in 1..Len(out) : out[i].rank = i
               /\ \A i \in 1..(Len(out) - 1) :
                    /\ CosineFromL2Squared(out[i].distance)
                         >= CosineFromL2Squared(out[i + 1].distance)
                    /\ out[i].distance <= out[i + 1].distance
               /\ \A i \in 1..Len(out) :
                    /\ out[i].distance = call[c].dists[i]
                    /\ retriever.kind = "v2" => out[i].id = call[c].ids[i]
                    /\ retriever.kind = "v1" => out[i].rows = {call[c].ids[i] + 1}

C24_Witness ==
    \E c \in Callers :
      /\ call[c].returned /\ Len(call[c].out) = 2
      /\ call[c].out[1].score = call[c].out[2].score
      /\ call[c].out[1].distance < call[c].out[2].distance
      /\ call[c].out[1].rank = 1 /\ call[c].out[2].rank = 2

\* The passage texts the builder now running or last run has produced.
PassageTexts ==
    IF build.job.tool = "build_index_v2" THEN build.index
    ELSE [i \in 1..Len(build.docs) |-> build.docs[i].text]

\* The record's field is non-empty: present and not the empty string.
NonEmptyField(cell) == ~Raw(cell).nan /\ Raw(cell).s # <<>>

Labels(p) == [k \in 1..Len(p.segments) |-> p.segments[k].label]

\* C26: every passage text an index builder produces is the passage
\* prefix, the title part, the author part exactly when the record's
\* author is non-empty, and the description part exactly when the record's
\* description is non-empty, and nothing else.
C26_PassageSegments ==
    build.job.tool \in IndexBuilders
      => \A i \in 1..Len(PassageTexts) :
           LET p == PassageTexts[i]
           IN  /\ p.prefix = PassagePrefix
               /\ Labels(p) =
                    <<"title">>
                    \o (IF NonEmptyField(p.author) THEN <<"author">> ELSE <<>>)
                    \o (IF NonEmptyField(p.description) THEN <<"description">>
                        ELSE <<>>)

\* C27: in every passage text an index builder produces, the description
\* part is the first min(len(description), MAX_CHARS) characters of the
\* record's description.
C27_DescriptionClipped ==
    build.job.tool \in IndexBuilders
      => \A i \in 1..Len(PassageTexts) :
           LET p == PassageTexts[i]
               d == Raw(p.description).s
           IN  \A k \in 1..Len(p.segments) :
                 p.segments[k].label = "description"
                   => /\ Len(p.segments[k].text) <= MAX_CHARS
                      /\ p.segments[k].text = SubSeq(d, 1, Min(Len(d), MAX_CHARS))

\* C28: every text embedded at build time starts with the passage prefix,
\* every text embedded at query time starts with the query prefix, and
\* the two prefixes differ.
C28_PrefixesNeverCrossed ==
    /\ QueryPrefix # PassagePrefix
    /\ \A i \in 1..Len(PassageTexts) : PassageTexts[i].prefix = PassagePrefix
    /\ \A i \in 1..Len(indexOrigin.vecs) : indexOrigin.vecs[i].prefix = PassagePrefix
    /\ \A c \in Callers :
         call[c].embeds > 0 => call[c].qvec.prefix = QueryPrefix

C28_Witness ==
    /\ build.pc = "done" /\ build.embedded >= 1
    /\ indexOrigin.run = build.run /\ Len(indexOrigin.vecs) >= 1
    /\ \E c \in Callers :
         /\ call[c].embeds > 0 /\ call[c].returned
         /\ Len(call[c].out) >= 1

\* C29: at every point of an index build the embedding vectors alive
\* outside the vector index are those of at most one batch, so at most
\* batch_size vectors.
C29_AtMostOneBatchInMemory ==
    build.job.tool \in IndexBuilders => build.peak <= build.job.B

\* C30: whenever the server's startup completes with the v2 retriever, the
\* directory ensure_faiss_index_v2 checked or populated is the directory
\* BookRetrieverV2 loaded its two artifacts from.
C30_EnsuredDirIsLoadedDir ==
    (app = "fastapi" /\ version = "v2" /\ phase = "serving")
      => dirs.ensured = dirs.loaded

====
